---- MODULE Spec2Model ----
(***************************************************************************)
(* A model of rpg-explainer's static analysis layer                        *)
(* (src/src/rpg_explainer/analysis.py, src/src/rpg_explainer/parser.py):   *)
(* the tree access primitives, the entity extractors, the fixed-form       *)
(* column extractor and the two-pass build_index pipeline.                 *)
(*                                                                         *)
(* Python str values are TLA+ strings; an optional value (str | None) is   *)
(* a sequence of length 0 (None) or 1; a Node is its index in the unit's   *)
(* node table and 0 stands for "no node" (None).                           *)
(***************************************************************************)
EXTENDS Naturals, Sequences, FiniteSets, TLC

(***************************************************************************)
(* Python str operations                                                   *)
(***************************************************************************)
UpperLetters == "ABCDEFGHIJKLMNOPQRSTUVWXYZ"

LowerLetters == "abcdefghijklmnopqrstuvwxyz"

Whitespace == {" ", "\t", "\n", "\r", "\f"}

None == <<>>

Some(s) == <<s>>

\* Python truthiness of a str | None value: None and "" are falsy.
Truthy(o) == o /= None /\ o[1] /= ""

Min(a, b) == IF a < b THEN a ELSE b

CharAt(s, i) == SubSeq(s, i, i)

\* s[a:b] for 0 <= a, b (Python clamps both ends to len(s)).
Slice(s, a, b) ==
    LET lo == Min(a, Len(s))
        hi == Min(b, Len(s))
    IN  IF lo >= hi THEN "" ELSE SubSeq(s, lo + 1, hi)

\* s[a:]
SliceFrom(s, a) == Slice(s, a, Len(s))

\* the letters as characters, and the two case mappings as tables
UpperSet == {CharAt(UpperLetters, k) : k \in 1..Len(UpperLetters)}

LowerSet == {CharAt(LowerLetters, k) : k \in 1..Len(LowerLetters)}

ToLower ==
    [c \in UpperSet |->
        CharAt(LowerLetters,
               CHOOSE k \in 1..Len(UpperLetters) : CharAt(UpperLetters, k) = c)]

ToUpper ==
    [c \in LowerSet |->
        CharAt(UpperLetters,
               CHOOSE k \in 1..Len(LowerLetters) : CharAt(LowerLetters, k) = c)]

LowerChar(c) == IF c \in UpperSet THEN ToLower[c] ELSE c

UpperChar(c) == IF c \in LowerSet THEN ToUpper[c] ELSE c

\* the characters a..b of s, mapped to lower case (k = 0) or upper case
RECURSIVE MapChars(_, _, _, _)
MapChars(s, k, a, b) ==
    IF a > b THEN ""
    ELSE IF a = b
    THEN (IF k = 0 THEN LowerChar(CharAt(s, a)) ELSE UpperChar(CharAt(s, a)))
    ELSE LET mid == (a + b) \div 2
         IN  MapChars(s, k, a, mid) \o MapChars(s, k, mid + 1, b)

\* str.lower()
Lower(s) == MapChars(s, 0, 1, Len(s))

\* str.upper()
Upper(s) == MapChars(s, 1, 1, Len(s))

\* the positions of s that hold no whitespace
Inked(s) == {k \in 1..Len(s) : CharAt(s, k) \notin Whitespace}

\* str.lstrip()
LStrip(s) ==
    IF Inked(s) = {} THEN ""
    ELSE SubSeq(s, CHOOSE k \in Inked(s) : \A x \in Inked(s) : k <= x, Len(s))

\* str.rstrip()
RStrip(s) ==
    IF Inked(s) = {} THEN ""
    ELSE SubSeq(s, 1, CHOOSE k \in Inked(s) : \A x \in Inked(s) : k >= x)

\* str.strip()
Strip(s) == RStrip(LStrip(s))

\* str.startswith(p)
StartsWith(s, p) == Len(s) >= Len(p) /\ SubSeq(s, 1, Len(p)) = p

\* str.isalpha(): non-empty and every character a letter.
IsAlpha(s) ==
    /\ s /= ""
    /\ \A k \in 1..Len(s) : CharAt(s, k) \in UpperSet \cup LowerSet

\* `x in xs` for a list
InList(x, xs) == \E k \in 1..Len(xs) : xs[k] = x

(***************************************************************************)
(* The input contract: a parsed unit is a path, the source text and a tree *)
(* of typed nodes with spans, ordered children and field names.  A tree is *)
(* written as a term, the list of its nodes in document order each with    *)
(* its depth below the root of the term; every leaf carries its text and   *)
(* the source is the text of the leaves, one per line.  The sources are    *)
(* written in ASCII, in which '~' stands for a character that UTF-8        *)
(* encodes in two bytes, such as a-umlaut (C3 A4).                         *)
(***************************************************************************)
\* seqs[a] \o ... \o seqs[b]
RECURSIVE ConcatRange(_, _, _)
ConcatRange(seqs, a, b) ==
    IF a > b THEN <<>>
    ELSE IF a = b THEN seqs[a]
    ELSE LET mid == (a + b) \div 2
         IN  ConcatRange(seqs, a, mid) \o ConcatRange(seqs, mid + 1, b)

Concat(seqs) == ConcatRange(seqs, 1, Len(seqs))

Leaf(type, text) == <<[type |-> type, field |-> "", text |-> text, depth |-> 0]>>

Tree(type, kids) ==
    LET below == Concat(kids)
    IN  <<[type |-> type, field |-> "", text |-> "", depth |-> 0]>>
        \o [k \in 1..Len(below) |-> [below[k] EXCEPT !.depth = @ + 1]]

Field(name, term) == [term EXCEPT ![1].field = name]

\* a node without children
IsLeaf(term, k) == k = Len(term) \/ term[k + 1].depth <= term[k].depth

\* the source text of the nodes a..b of the term
RECURSIVE SourceOf(_, _, _)
SourceOf(term, a, b) ==
    IF a > b THEN ""
    ELSE IF a = b THEN (IF IsLeaf(term, a) THEN term[a].text \o "\n" ELSE "")
    ELSE LET mid == (a + b) \div 2
         IN  SourceOf(term, a, mid) \o SourceOf(term, mid + 1, b)

\* the source text up to and including the k-th node of the term
SourceUpTo(term, k) == SourceOf(term, 1, k)

\* the last node of the subtree of the k-th node
LastBelow(term, k) ==
    LET later == {m \in (k + 1)..Len(term) : term[m].depth <= term[k].depth}
    IN  IF later = {} THEN Len(term)
        ELSE (CHOOSE m \in later : \A x \in later : m <= x) - 1

\* the first leaf of the subtree of the k-th node
FirstLeaf(term, k) ==
    CHOOSE m \in k..Len(term) :
        IsLeaf(term, m) /\ \A x \in k..(m - 1) : ~IsLeaf(term, x)

\* Node.children, in document order
ChildrenOf(term, k) ==
    LET kids == {m \in (k + 1)..LastBelow(term, k) :
                    term[m].depth = term[k].depth + 1}
    IN  [r \in 1..Cardinality(kids) |->
            CHOOSE m \in kids : Cardinality({x \in kids : x < m}) = r - 1]

\* source.encode("utf-8"): the bytes of the source, one element each
encode(s) ==
    Concat([k \in 1..Len(s) |->
              IF CharAt(s, k) = "~" THEN <<"C3", "A4">> ELSE <<CharAt(s, k)>>])

\* Node.type, Node.start_byte, Node.end_byte, Node.children and the field
\* name of the node in its parent; the tree is parsed from the encoded
\* source, the spans count its bytes
NodeOf(term, k) ==
    [type       |-> term[k].type,
     field      |-> term[k].field,
     start_byte |-> Len(encode(SourceUpTo(term, FirstLeaf(term, k) - 1))),
     end_byte   |-> Len(encode(SourceUpTo(term, LastBelow(term, k)))) - 1,
     children   |-> ChildrenOf(term, k)]

\* ParsedFile(path=path, tree=tree, source=source); the root node is node 1.
ParsedFile(path, term) ==
    [path   |-> path,
     source |-> SourceUpTo(term, Len(term)),
     nodes  |-> [k \in 1..Len(term) |-> NodeOf(term, k)]]

root_node(parsed) == 1

(***************************************************************************)
(* Syntax tree access layer (parser.py)                                    *)
(***************************************************************************)
\* bytes.decode("utf-8"); bytes that are no whole character raise
\* UnicodeDecodeError, written here as the text of that name
decode(bytes) ==
    LET whole == \A k \in 1..Len(bytes) :
                    /\ bytes[k] = "C3" => k < Len(bytes) /\ bytes[k + 1] = "A4"
                    /\ bytes[k] = "A4" => k > 1 /\ bytes[k - 1] = "C3"
    IN  IF Len(bytes) = 0 THEN ""
        ELSE IF ~whole THEN "UnicodeDecodeError"
        ELSE Concat([k \in 1..Len(bytes) |->
                       IF bytes[k] = "C3" THEN "~"
                       ELSE IF bytes[k] = "A4" THEN ""
                       ELSE bytes[k]])

\* node_text on the source as bytes (lines 101-102)
node_text_bytes(parsed, n) ==
    decode(Slice(encode(parsed.source), parsed.nodes[n].start_byte,
                 parsed.nodes[n].end_byte))

\* node_text on the source as str (line 103), as the analyzer calls it
node_text(parsed, n) ==
    Slice(parsed.source, parsed.nodes[n].start_byte, parsed.nodes[n].end_byte)

RECURSIVE iter_nodes(_, _, _)
RECURSIVE iter_children(_, _, _)
\* the sequence of (node, parent) pairs the generator yields
iter_nodes(parsed, n, parent) ==
    <<<<n, parent>>>> \o iter_children(parsed, parsed.nodes[n].children, n)

iter_children(parsed, cs, parent) ==
    Concat([k \in 1..Len(cs) |-> iter_nodes(parsed, cs[k], parent)])

SelectType(parsed, pairs, type) ==
    Concat([k \in 1..Len(pairs) |->
              IF parsed.nodes[pairs[k][1]].type = type
              THEN <<pairs[k][1]>> ELSE <<>>])

find_nodes_by_type(parsed, n, type) ==
    SelectType(parsed, iter_nodes(parsed, n, 0), type)

RECURSIVE FirstWithField(_, _, _)
FirstWithField(parsed, cs, name) ==
    IF cs = <<>> THEN 0
    ELSE IF parsed.nodes[Head(cs)].field = name THEN Head(cs)
         ELSE FirstWithField(parsed, Tail(cs), name)

\* tree-sitter's Node.child_by_field_name: the first child in that field, or None
child_by_field_name(parsed, n, name) ==
    FirstWithField(parsed, parsed.nodes[n].children, name)

(***************************************************************************)
(* Helpers for Python lists and dicts                                      *)
(***************************************************************************)
\* "for x in xs: r = f(x); if r: out.append(r)": keep what is not None
KeepSome(opts) == Concat(opts)

\* d[k] = v on an insertion-ordered dict, kept as a list of <<key, value>>
DictSet(d, k, v) ==
    IF \E p \in 1..Len(d) : d[p][1] = k
    THEN [p \in 1..Len(d) |-> IF d[p][1] = k THEN <<k, v>> ELSE d[p]]
    ELSE Append(d, <<k, v>>)

(***************************************************************************)
(* Entity extractors (analysis.py)                                         *)
(***************************************************************************)
IdentifierKinds == {"identifier", "special_identifier"}

RECURSIVE FirstIdentifierChild(_, _)
FirstIdentifierChild(parsed, cs) ==
    IF cs = <<>> THEN 0
    ELSE IF parsed.nodes[Head(cs)].type
              \in IdentifierKinds \cup {"identifier_or_star"}
         THEN Head(cs)
         ELSE FirstIdentifierChild(parsed, Tail(cs))

\* _get_identifier_name looking at the children before the 'name' field
RECURSIVE _get_identifier_nameChildFirst(_, _)
_get_identifier_nameChildFirst(parsed, n) ==
    IF parsed.nodes[n].type \in IdentifierKinds
    THEN Some(node_text(parsed, n))
    ELSE LET name_node == child_by_field_name(parsed, n, "name")
             child == FirstIdentifierChild(parsed, parsed.nodes[n].children)
         IN  IF child /= 0
             THEN IF parsed.nodes[child].type = "identifier_or_star"
                  THEN _get_identifier_nameChildFirst(parsed, child)
                  ELSE Some(node_text(parsed, child))
             ELSE IF name_node /= 0 THEN Some(node_text(parsed, name_node))
             ELSE None

RECURSIVE _get_identifier_name(_, _)
_get_identifier_name(parsed, n) ==
    IF parsed.nodes[n].type \in IdentifierKinds
    THEN Some(node_text(parsed, n))
    ELSE LET name_node == child_by_field_name(parsed, n, "name")
             child == FirstIdentifierChild(parsed, parsed.nodes[n].children)
         IN  IF name_node /= 0 THEN Some(node_text(parsed, name_node))
             ELSE IF child = 0 THEN None
             ELSE IF parsed.nodes[child].type = "identifier_or_star"
                  THEN _get_identifier_name(parsed, child)
                  ELSE Some(node_text(parsed, child))

_extract_type_spec(parsed, n) ==
    LET found == find_nodes_by_type(parsed, n, "type_spec")
    IN  IF found = <<>> THEN None ELSE Some(node_text(parsed, found[1]))

AttributeDelimiters == {"(", ")", ",", ":"}

\* the inner loop of _extract_attributes over one attribute's children;
\* st = [attr_name, attr_args]
RECURSIVE AttributeScan(_, _, _)
AttributeScan(parsed, cs, st) ==
    IF cs = <<>> THEN st
    ELSE LET c == Head(cs)
             type == parsed.nodes[c].type
             text == node_text(parsed, c)
             next == IF type \in IdentifierKinds
                     THEN IF st.attr_name = None
                          THEN [st EXCEPT !.attr_name = Some(Lower(text))]
                          ELSE st
                     ELSE IF type \notin AttributeDelimiters /\ text /= ""
                          THEN [st EXCEPT !.attr_args = Append(@, text)]
                          ELSE st
         IN  AttributeScan(parsed, Tail(cs), next)

RECURSIVE AttributeLoop(_, _, _)
AttributeLoop(parsed, cs, attrs) ==
    IF cs = <<>> THEN attrs
    ELSE LET c == Head(cs)
             st == AttributeScan(parsed, parsed.nodes[c].children,
                                 [attr_name |-> None, attr_args |-> <<>>])
         IN  AttributeLoop(parsed, Tail(cs),
                 IF parsed.nodes[c].type = "attribute" /\ Truthy(st.attr_name)
                 THEN DictSet(attrs, st.attr_name[1], st.attr_args)
                 ELSE attrs)

_extract_attributes(parsed, n) ==
    AttributeLoop(parsed, parsed.nodes[n].children, <<>>)

RPGParameter(name, type, attributes) ==
    [name |-> name, type |-> type, attributes |-> attributes]

ParameterOf(parsed, param_node) ==
    LET name == _get_identifier_name(parsed, param_node)
    IN  IF Truthy(name)
        THEN Some(RPGParameter(name[1], _extract_type_spec(parsed, param_node),
                               _extract_attributes(parsed, param_node)))
        ELSE None

_extract_parameters(parsed, proc_node) ==
    LET pis == find_nodes_by_type(parsed, proc_node, "procedure_interface")
        params(pi) == find_nodes_by_type(parsed, pi, "parameter_definition")
    IN  Concat([p \in 1..Len(pis) |->
                  KeepSome([q \in 1..Len(params(pis[p])) |->
                              ParameterOf(parsed, params(pis[p])[q])])])

RECURSIVE FirstOfType(_, _, _)
FirstOfType(parsed, cs, type) ==
    IF cs = <<>> THEN 0
    ELSE IF parsed.nodes[Head(cs)].type = type THEN Head(cs)
         ELSE FirstOfType(parsed, Tail(cs), type)

RECURSIVE ReturnTypeLoop(_, _)
ReturnTypeLoop(parsed, pis) ==
    IF pis = <<>> THEN None
    ELSE LET c == FirstOfType(parsed, parsed.nodes[Head(pis)].children,
                              "type_spec")
         IN  IF c /= 0 THEN Some(node_text(parsed, c))
             ELSE ReturnTypeLoop(parsed, Tail(pis))

_extract_return_type(parsed, proc_node) ==
    ReturnTypeLoop(parsed,
                   find_nodes_by_type(parsed, proc_node, "procedure_interface"))

\* CallTargetAt taking a special_identifier for a call target as well
CallTargetAtAnyName(parsed, pairs, k) ==
    LET child == pairs[k][1]
        prev_node == IF k = 1 THEN 0 ELSE pairs[k - 1][1]
        name == node_text(parsed, prev_node)
        hit == /\ parsed.nodes[child].type = "paren_group"
               /\ prev_node /= 0
               /\ parsed.nodes[prev_node].type \in IdentifierKinds
               /\ ~StartsWith(name, "%")
    IN  IF hit THEN <<name>> ELSE <<>>

\* what the k-th iteration of the loop of _find_call_targets yields;
\* prev_node is the node of the iteration before, 0 (None) in the first
CallTargetAt(parsed, pairs, k) ==
    LET child == pairs[k][1]
        prev_node == IF k = 1 THEN 0 ELSE pairs[k - 1][1]
        name == node_text(parsed, prev_node)
        hit == /\ parsed.nodes[child].type = "paren_group"
               /\ prev_node /= 0
               /\ parsed.nodes[prev_node].type = "identifier"
               /\ ~StartsWith(name, "%")
    IN  IF hit THEN <<name>> ELSE <<>>

CallTargetLoop(parsed, pairs) ==
    Concat([k \in 1..Len(pairs) |-> CallTargetAt(parsed, pairs, k)])

_find_call_targets(parsed, n) ==
    CallTargetLoop(parsed, iter_nodes(parsed, n, 0))

\* the k-th iteration of the loop of _find_file_references passes the two
\* tests on the node
FileReferenceAt(parsed, pairs, file_names_lower, k) ==
    /\ parsed.nodes[pairs[k][1]].type = "identifier"
    /\ Lower(node_text(parsed, pairs[k][1])) \in file_names_lower

\* the loop with 'name not in refs' of line 224 comparing without case
FileReferenceLoopFoldCase(parsed, pairs, file_names_lower) ==
    Concat([k \in 1..Len(pairs) |->
              IF /\ FileReferenceAt(parsed, pairs, file_names_lower, k)
                 /\ \A e \in 1..(k - 1) :
                        FileReferenceAt(parsed, pairs, file_names_lower, e)
                        => Lower(node_text(parsed, pairs[e][1]))
                               /= Lower(node_text(parsed, pairs[k][1]))
              THEN <<node_text(parsed, pairs[k][1])>> ELSE <<>>])

\* refs after the loop: the name of an iteration that passes the tests is
\* appended unless an earlier iteration appended the same name
FileReferenceLoop(parsed, pairs, file_names_lower) ==
    Concat([k \in 1..Len(pairs) |->
              IF /\ FileReferenceAt(parsed, pairs, file_names_lower, k)
                 /\ \A e \in 1..(k - 1) :
                        FileReferenceAt(parsed, pairs, file_names_lower, e)
                        => node_text(parsed, pairs[e][1])
                               /= node_text(parsed, pairs[k][1])
              THEN <<node_text(parsed, pairs[k][1])>> ELSE <<>>])

_find_file_references(parsed, n, file_names) ==
    FileReferenceLoop(parsed, iter_nodes(parsed, n, 0),
                      {Lower(f) : f \in file_names})

(***************************************************************************)
(* Fixed-form column extractor (analysis.py)                               *)
(***************************************************************************)
RPGFixedSpec(spec_type, raw_line, name, keywords) ==
    [spec_type |-> spec_type, raw_line |-> raw_line, name |-> name,
     keywords |-> keywords]

_parse_fixed_spec(spec_type, parsed, n) ==
    LET raw_line == node_text(parsed, n)
    IN  IF raw_line = "" THEN None
        ELSE Some(RPGFixedSpec(spec_type, raw_line, None, <<>>))

\* the shared shape of _parse_fixed_f_spec and _parse_fixed_d_spec: a minimum
\* length, a name column range [6, name_end) and the comment test on the name
ParseNamedSpec(spec_type, raw_line, min_len, name_end) ==
    IF raw_line = "" \/ Len(raw_line) < min_len THEN None
    ELSE LET name == IF Len(raw_line) > 6
                     THEN Some(Strip(Slice(raw_line, 6, name_end)))
                     ELSE None
         IN  IF Truthy(name) /\ StartsWith(name[1], "*")
             THEN Some(RPGFixedSpec(spec_type, raw_line, None, <<>>))
             ELSE Some(RPGFixedSpec(spec_type, raw_line, name, <<>>))

_parse_fixed_f_spec(parsed, n) ==
    ParseNamedSpec("F", node_text(parsed, n), 17, 16)

_parse_fixed_d_spec(parsed, n) ==
    ParseNamedSpec("D", node_text(parsed, n), 22, 21)

\* _parse_fixed_c_spec without the isalpha test of line 445
_parse_fixed_c_specAnyOperand(parsed, n) ==
    LET raw_line == node_text(parsed, n)
        opcode0 == IF Len(raw_line) > 25
                   THEN IF Len(raw_line) > 34
                        THEN Upper(Strip(Slice(raw_line, 25, 35)))
                        ELSE Upper(Strip(SliceFrom(raw_line, 25)))
                   ELSE ""
        factor2 == IF Len(raw_line) > 35
                   THEN IF Len(raw_line) > 48
                        THEN Strip(Slice(raw_line, 35, 49))
                        ELSE Strip(SliceFrom(raw_line, 35))
                   ELSE ""
        opcode == IF opcode0 = "" /\ factor2 /= ""
                  THEN Upper(factor2)
                  ELSE opcode0
    IN  IF raw_line = "" \/ Len(raw_line) < 7 THEN None
        ELSE IF Len(raw_line) > 6 /\ CharAt(raw_line, 7) = "*"
             THEN Some(RPGFixedSpec("C", raw_line, None, <<>>))
             ELSE Some(RPGFixedSpec("C", raw_line,
                                    IF opcode /= "" THEN Some(opcode) ELSE None,
                                    IF opcode /= ""
                                    THEN <<<<"opcode", opcode>>>> ELSE <<>>))

_parse_fixed_c_spec(parsed, n) ==
    LET raw_line == node_text(parsed, n)
        opcode0 == IF Len(raw_line) > 25
                   THEN IF Len(raw_line) > 34
                        THEN Upper(Strip(Slice(raw_line, 25, 35)))
                        ELSE Upper(Strip(SliceFrom(raw_line, 25)))
                   ELSE ""
        factor2 == IF Len(raw_line) > 35
                   THEN IF Len(raw_line) > 48
                        THEN Strip(Slice(raw_line, 35, 49))
                        ELSE Strip(SliceFrom(raw_line, 35))
                   ELSE ""
        opcode == IF opcode0 = "" /\ factor2 /= "" /\ IsAlpha(factor2)
                  THEN Upper(factor2)
                  ELSE opcode0
    IN  IF raw_line = "" \/ Len(raw_line) < 7 THEN None
        ELSE IF Len(raw_line) > 6 /\ CharAt(raw_line, 7) = "*"
             THEN Some(RPGFixedSpec("C", raw_line, None, <<>>))
             ELSE Some(RPGFixedSpec("C", raw_line,
                                    IF opcode /= "" THEN Some(opcode) ELSE None,
                                    IF opcode /= ""
                                    THEN <<<<"opcode", opcode>>>> ELSE <<>>))

(***************************************************************************)
(* Per-construct extraction methods of RPGAnalyzer                         *)
(***************************************************************************)
RPGFileDef(name, keywords) == [name |-> name, keywords |-> keywords]

_extract_file_def(parsed, n) ==
    LET name == _get_identifier_name(parsed, n)
    IN  IF ~Truthy(name) THEN None
        ELSE Some(RPGFileDef(name[1], _extract_attributes(parsed, n)))

_extract_constant(parsed, n) ==
    LET name == _get_identifier_name(parsed, n)
        value_node == child_by_field_name(parsed, n, "value")
    IN  IF ~Truthy(name) THEN None
        ELSE Some([name |-> name[1],
                   value_preview |->
                       IF value_node /= 0
                       THEN Slice(node_text(parsed, value_node), 0, 50)
                       ELSE ""])

_extract_data_structure(parsed, n) ==
    LET name == _get_identifier_name(parsed, n)
        subs == find_nodes_by_type(parsed, n, "subfield_definition")
        subname(k) == _get_identifier_name(parsed, subs[k])
    IN  IF ~Truthy(name) THEN None
        ELSE Some([name |-> name[1],
                   subfields |->
                       KeepSome([k \in 1..Len(subs) |->
                                   IF Truthy(subname(k)) THEN subname(k)
                                   ELSE None])])

RPGProcedure(name, params, returns, calls_internal, calls_external, uses_files) ==
    [name |-> name, params |-> params, returns |-> returns,
     calls_internal |-> calls_internal, calls_external |-> calls_external,
     uses_files |-> uses_files]

\* _extract_procedure giving a procedure without a name the name "main"
_extract_procedureUnnamed(parsed, n, file_names) ==
    LET name == _get_identifier_name(parsed, n)
    IN  Some(RPGProcedure(IF Truthy(name) THEN name[1] ELSE "main",
                          _extract_parameters(parsed, n),
                          _extract_return_type(parsed, n),
                          _find_call_targets(parsed, n),
                          <<>>,
                          _find_file_references(parsed, n, file_names)))

_extract_procedure(parsed, n, file_names) ==
    LET name == _get_identifier_name(parsed, n)
    IN  IF ~Truthy(name) THEN None
        ELSE Some(RPGProcedure(name[1],
                               _extract_parameters(parsed, n),
                               _extract_return_type(parsed, n),
                               _find_call_targets(parsed, n),
                               <<>>,
                               _find_file_references(parsed, n, file_names)))

\* find_nodes_by_type(root, kind)
Found(parsed, kind) == find_nodes_by_type(parsed, root_node(parsed), kind)

\* the loops of _extract_fixed_form_specs, each
\* "for node in find_nodes_by_type(root, kind): spec = parse(node);
\*  if spec: append(spec)"
HSpecs(parsed) ==
    LET ns == Found(parsed, "fixed_h_spec")
    IN  KeepSome([k \in 1..Len(ns) |-> _parse_fixed_spec("H", parsed, ns[k])])

FSpecs(parsed) ==
    LET ns == Found(parsed, "fixed_f_spec")
    IN  KeepSome([k \in 1..Len(ns) |-> _parse_fixed_f_spec(parsed, ns[k])])

DSpecs(parsed) ==
    LET ns == Found(parsed, "fixed_d_spec")
    IN  KeepSome([k \in 1..Len(ns) |-> _parse_fixed_d_spec(parsed, ns[k])])

\* CSpecs leaving the loop at the first line that yields no record
CSpecsStopAtShort(parsed) ==
    LET ns == Found(parsed, "fixed_c_spec")
        specs == [k \in 1..Len(ns) |-> _parse_fixed_c_spec(parsed, ns[k])]
        gaps == {k \in 1..Len(ns) : specs[k] = None}
    IN  KeepSome([k \in 1..Len(ns) |->
                    IF \E g \in gaps : g < k THEN None ELSE specs[k]])

CSpecs(parsed) ==
    LET ns == Found(parsed, "fixed_c_spec")
    IN  KeepSome([k \in 1..Len(ns) |-> _parse_fixed_c_spec(parsed, ns[k])])

PSpecs(parsed) ==
    LET ns == Found(parsed, "fixed_p_spec")
    IN  KeepSome([k \in 1..Len(ns) |-> _parse_fixed_spec("P", parsed, ns[k])])

\* the file_defs entries the F loop appends: one per F record with a truthy name
FileDefsOfFSpecs(f_specs) ==
    KeepSome([k \in 1..Len(f_specs) |->
                IF Truthy(f_specs[k].name)
                THEN Some(RPGFileDef(f_specs[k].name[1], f_specs[k].keywords))
                ELSE None])

\* _extract_fixed_form_specs putting the F records' file declarations
\* ahead of the ones already in the list
_extract_fixed_form_specsFirst(rpg_file, parsed) ==
    [rpg_file EXCEPT
        !.fixed_h_specs = @ \o HSpecs(parsed),
        !.fixed_f_specs = @ \o FSpecs(parsed),
        !.file_defs     = FileDefsOfFSpecs(FSpecs(parsed)) \o @,
        !.fixed_d_specs = @ \o DSpecs(parsed),
        !.fixed_c_specs = @ \o CSpecs(parsed),
        !.fixed_p_specs = @ \o PSpecs(parsed)]

_extract_fixed_form_specs(rpg_file, parsed) ==
    [rpg_file EXCEPT
        !.fixed_h_specs = @ \o HSpecs(parsed),
        !.fixed_f_specs = @ \o FSpecs(parsed),
        !.file_defs     = @ \o FileDefsOfFSpecs(FSpecs(parsed)),
        !.fixed_d_specs = @ \o DSpecs(parsed),
        !.fixed_c_specs = @ \o CSpecs(parsed),
        !.fixed_p_specs = @ \o PSpecs(parsed)]

\* RPGFile(path=path): every list field starts empty
RPGFile(path) ==
    [path |-> path, procedures |-> <<>>, subroutines |-> <<>>,
     file_defs |-> <<>>, constants |-> <<>>, data_structures |-> <<>>,
     prototypes |-> <<>>, fixed_h_specs |-> <<>>, fixed_f_specs |-> <<>>,
     fixed_d_specs |-> <<>>, fixed_c_specs |-> <<>>, fixed_p_specs |-> <<>>]

\* lines 260-263
FileDefs(parsed) ==
    LET ns == Found(parsed, "file_definition")
    IN  KeepSome([k \in 1..Len(ns) |-> _extract_file_def(parsed, ns[k])])

\* lines 268-271
Constants(parsed) ==
    LET ns == Found(parsed, "constant_definition")
    IN  KeepSome([k \in 1..Len(ns) |-> _extract_constant(parsed, ns[k])])

\* lines 274-277
DataStructures(parsed) ==
    LET ns == Found(parsed, "data_structure_definition")
    IN  KeepSome([k \in 1..Len(ns) |-> _extract_data_structure(parsed, ns[k])])

\* lines 280-283
Prototypes(parsed) ==
    LET ns == Found(parsed, "procedure_prototype")
        name(k) == _get_identifier_name(parsed, ns[k])
    IN  KeepSome([k \in 1..Len(ns) |-> IF Truthy(name(k)) THEN name(k) ELSE None])

\* lines 286-289
Procedures(parsed, file_names) ==
    LET ns == Found(parsed, "procedure_definition")
    IN  KeepSome([k \in 1..Len(ns) |->
                    _extract_procedure(parsed, ns[k], file_names)])

\* the file name set handed to _extract_procedure (line 265)
FileNames(file_defs) == {file_defs[k].name : k \in 1..Len(file_defs)}

_analyze_file(parsed) ==
    LET file_defs == FileDefs(parsed)
        file_names == FileNames(file_defs)
        rpg_file ==
            [RPGFile(parsed.path) EXCEPT
                !.file_defs = file_defs,
                !.constants = Constants(parsed),
                !.data_structures = DataStructures(parsed),
                !.prototypes = Prototypes(parsed),
                !.procedures = Procedures(parsed, file_names)]
    IN  _extract_fixed_form_specs(rpg_file, parsed)

(***************************************************************************)
(* Serialisation (ProgramIndex.to_dict, ProgramIndex.to_json).  A dict is  *)
(* the list of its <<key, value>> items in insertion order; the JSON text  *)
(* is the list of its tokens (json.dumps' indentation carries no data).    *)
(***************************************************************************)
DictOfParameter(p) ==
    <<<<"name", p.name>>, <<"type", p.type>>, <<"attributes", p.attributes>>>>

DictOfProcedure(p) ==
    <<<<"name", p.name>>,
      <<"params", [k \in 1..Len(p.params) |-> DictOfParameter(p.params[k])]>>,
      <<"returns", p.returns>>,
      <<"calls_internal", p.calls_internal>>,
      <<"calls_external", p.calls_external>>,
      <<"uses_files", p.uses_files>>>>

DictOfFileDef(d) == <<<<"name", d.name>>, <<"keywords", d.keywords>>>>

DictOfConstant(c) == <<<<"name", c.name>>, <<"value_preview", c.value_preview>>>>

DictOfDataStructure(d) == <<<<"name", d.name>>, <<"subfields", d.subfields>>>>

DictOfFixedSpec(r) ==
    <<<<"spec_type", r.spec_type>>, <<"raw_line", r.raw_line>>,
      <<"name", r.name>>, <<"keywords", r.keywords>>>>

DictOfSpecs(specs) == [k \in 1..Len(specs) |-> DictOfFixedSpec(specs[k])]

DictOfFile(f) ==
    <<<<"path", f.path>>,
      <<"procedures",
        [k \in 1..Len(f.procedures) |-> DictOfProcedure(f.procedures[k])]>>,
      <<"subroutines", f.subroutines>>,
      <<"file_defs",
        [k \in 1..Len(f.file_defs) |-> DictOfFileDef(f.file_defs[k])]>>,
      <<"constants",
        [k \in 1..Len(f.constants) |-> DictOfConstant(f.constants[k])]>>,
      <<"data_structures",
        [k \in 1..Len(f.data_structures) |->
            DictOfDataStructure(f.data_structures[k])]>>,
      <<"prototypes", f.prototypes>>,
      <<"fixed_h_specs", DictOfSpecs(f.fixed_h_specs)>>,
      <<"fixed_f_specs", DictOfSpecs(f.fixed_f_specs)>>,
      <<"fixed_d_specs", DictOfSpecs(f.fixed_d_specs)>>,
      <<"fixed_c_specs", DictOfSpecs(f.fixed_c_specs)>>,
      <<"fixed_p_specs", DictOfSpecs(f.fixed_p_specs)>>>>

\* asdict leaving out the files that have no procedure
to_dictOfProcedures(files) ==
    <<<<"files", Concat([k \in 1..Len(files) |->
                           IF files[k].procedures = <<>> THEN <<>>
                           ELSE <<DictOfFile(files[k])>>])>>>>

\* asdict(self) of a ProgramIndex whose files are `files`
to_dict(files) == <<<<"files", [k \in 1..Len(files) |-> DictOfFile(files[k])]>>>>

JsonStr(s) == <<"\"" \o s \o "\"">>

JsonOpt(o) == IF o = None THEN <<"null">> ELSE JsonStr(o[1])

JsonJoin(items) ==
    Concat([k \in 1..Len(items) |->
              IF k = 1 THEN items[k] ELSE <<",">> \o items[k]])

\* a JSON array of already rendered items
JsonList(items) == <<"[">> \o JsonJoin(items) \o <<"]">>

\* a JSON object of already rendered values, d[k] = <<key, tokens>>
JsonObject(d) ==
    <<"{">> \o JsonJoin([k \in 1..Len(d) |-> JsonStr(d[k][1]) \o <<":">> \o d[k][2]])
            \o <<"}">>

JsonStrList(xs) == JsonList([k \in 1..Len(xs) |-> JsonStr(xs[k])])

\* dict[str, list[str]]
JsonListDict(d) ==
    JsonObject([k \in 1..Len(d) |-> <<d[k][1], JsonStrList(d[k][2])>>])

\* dict[str, str]
JsonStrDict(d) ==
    JsonObject([k \in 1..Len(d) |-> <<d[k][1], JsonStr(d[k][2])>>])

\* the value at position k of a dict
Val(d, k) == d[k][2]

JsonOfParameter(d) ==
    JsonObject(<<<<d[1][1], JsonStr(Val(d, 1))>>, <<d[2][1], JsonOpt(Val(d, 2))>>,
                 <<d[3][1], JsonListDict(Val(d, 3))>>>>)

JsonOfProcedure(d) ==
    JsonObject(<<<<d[1][1], JsonStr(Val(d, 1))>>,
                 <<d[2][1], JsonList([k \in 1..Len(Val(d, 2)) |->
                                        JsonOfParameter(Val(d, 2)[k])])>>,
                 <<d[3][1], JsonOpt(Val(d, 3))>>,
                 <<d[4][1], JsonStrList(Val(d, 4))>>,
                 <<d[5][1], JsonStrList(Val(d, 5))>>,
                 <<d[6][1], JsonStrList(Val(d, 6))>>>>)

JsonOfFileDef(d) ==
    JsonObject(<<<<d[1][1], JsonStr(Val(d, 1))>>,
                 <<d[2][1], JsonListDict(Val(d, 2))>>>>)

JsonOfConstant(d) ==
    JsonObject(<<<<d[1][1], JsonStr(Val(d, 1))>>, <<d[2][1], JsonStr(Val(d, 2))>>>>)

JsonOfDataStructure(d) ==
    JsonObject(<<<<d[1][1], JsonStr(Val(d, 1))>>,
                 <<d[2][1], JsonStrList(Val(d, 2))>>>>)

JsonOfFixedSpec(d) ==
    JsonObject(<<<<d[1][1], JsonStr(Val(d, 1))>>, <<d[2][1], JsonStr(Val(d, 2))>>,
                 <<d[3][1], JsonOpt(Val(d, 3))>>,
                 <<d[4][1], JsonStrDict(Val(d, 4))>>>>)

JsonOfSpecs(ds) == JsonList([k \in 1..Len(ds) |-> JsonOfFixedSpec(ds[k])])

JsonOfFile(d) ==
    JsonObject(<<<<d[1][1], JsonStr(Val(d, 1))>>,
                 <<d[2][1], JsonList([k \in 1..Len(Val(d, 2)) |->
                                        JsonOfProcedure(Val(d, 2)[k])])>>,
                 <<d[3][1], JsonList(Val(d, 3))>>,
                 <<d[4][1], JsonList([k \in 1..Len(Val(d, 4)) |->
                                        JsonOfFileDef(Val(d, 4)[k])])>>,
                 <<d[5][1], JsonList([k \in 1..Len(Val(d, 5)) |->
                                        JsonOfConstant(Val(d, 5)[k])])>>,
                 <<d[6][1], JsonList([k \in 1..Len(Val(d, 6)) |->
                                        JsonOfDataStructure(Val(d, 6)[k])])>>,
                 <<d[7][1], JsonStrList(Val(d, 7))>>,
                 <<d[8][1], JsonOfSpecs(Val(d, 8))>>,
                 <<d[9][1], JsonOfSpecs(Val(d, 9))>>,
                 <<d[10][1], JsonOfSpecs(Val(d, 10))>>,
                 <<d[11][1], JsonOfSpecs(Val(d, 11))>>,
                 <<d[12][1], JsonOfSpecs(Val(d, 12))>>>>)

\* json.dumps(self.to_dict(), indent=indent)
to_json(files) ==
    LET d == to_dict(files)
    IN  JsonObject(<<<<d[1][1], JsonList([k \in 1..Len(Val(d, 1)) |->
                                            JsonOfFile(Val(d, 1)[k])])>>>>)

(***************************************************************************)
(* The global classification pass (_categorize_calls)                      *)
(***************************************************************************)
\* lines 529-533, one file: the names the file adds to the two sets
ProcNamesLower(rpg_file) ==
    {Lower(rpg_file.procedures[k].name) : k \in 1..Len(rpg_file.procedures)}

ProtoNamesLower(rpg_file) ==
    {Lower(rpg_file.prototypes[k]) : k \in 1..Len(rpg_file.prototypes)}

\* IsInternal with the two tests swapped: a definition wins over a prototype
IsInternalDefinitionFirst(call, procs, protos) ==
    LET call_lower == Lower(call)
    IN  IF call_lower \in procs THEN TRUE
        ELSE IF call_lower \in protos THEN FALSE
        ELSE FALSE

\* IsInternal with the unknown default turned round
IsInternalUnknownInternal(call, procs, protos) ==
    LET call_lower == Lower(call)
    IN  IF call_lower \in protos THEN FALSE
        ELSE IF call_lower \in procs THEN TRUE
        ELSE TRUE

\* IsInternal without call.lower()
IsInternalCaseSensitive(call, procs, protos) ==
    IF call \in protos THEN FALSE
    ELSE IF call \in procs THEN TRUE
    ELSE FALSE

\* lines 541-549, one call: TRUE when the call is appended to `internal`
IsInternal(call, procs, protos) ==
    LET call_lower == Lower(call)
    IN  IF call_lower \in protos THEN FALSE
        ELSE IF call_lower \in procs THEN TRUE
        ELSE FALSE

\* Categorize without the final else branch: an unknown call is lost
RECURSIVE CategorizeDropUnknown(_, _, _, _)
CategorizeDropUnknown(calls, procs, protos, acc) ==
    IF calls = <<>> THEN acc
    ELSE CategorizeDropUnknown(Tail(calls), procs, protos,
             IF Lower(Head(calls)) \in protos
             THEN [acc EXCEPT !.external = Append(@, Head(calls))]
             ELSE IF Lower(Head(calls)) \in procs
             THEN [acc EXCEPT !.internal = Append(@, Head(calls))]
             ELSE acc)

\* lines 538-549: the two lists built from proc.calls_internal
RECURSIVE Categorize(_, _, _, _)
Categorize(calls, procs, protos, acc) ==
    IF calls = <<>> THEN acc
    ELSE Categorize(Tail(calls), procs, protos,
             IF IsInternal(Head(calls), procs, protos)
             THEN [acc EXCEPT !.internal = Append(@, Head(calls))]
             ELSE [acc EXCEPT !.external = Append(@, Head(calls))])

\* CategorizeProc extending the lists instead of assigning them
CategorizeProcAppend(proc, procs, protos) ==
    LET r == Categorize(proc.calls_internal, procs, protos,
                        [internal |-> <<>>, external |-> <<>>])
    IN  [proc EXCEPT !.calls_internal = @ \o r.internal,
                     !.calls_external = @ \o r.external]

\* CategorizeProc storing the lower-cased name it compared with as well
CategorizeProcLowerName(proc, procs, protos) ==
    LET r == Categorize(proc.calls_internal, procs, protos,
                        [internal |-> <<>>, external |-> <<>>])
    IN  [proc EXCEPT !.name = Lower(@),
                     !.calls_internal = r.internal,
                     !.calls_external = r.external]

\* lines 538-552 for one procedure
CategorizeProc(proc, procs, protos) ==
    LET r == Categorize(proc.calls_internal, procs, protos,
                        [internal |-> <<>>, external |-> <<>>])
    IN  [proc EXCEPT !.calls_internal = r.internal,
                     !.calls_external = r.external]

(***************************************************************************)
(* Inputs: parsed units of free-form code                                  *)
(***************************************************************************)
MaxFiles == 2

Digits == "0123456789"

CallSite(name) == <<Leaf("identifier", name), Leaf("paren_group", "()")>>

\* procedure bodies: none, one call, repeated and unresolved targets with a
\* plain identifier in between, and a built-in plus a nested call
Bodies ==
    << <<>>,
       CallSite("foo"),
       CallSite("Bar") \o CallSite("qux") \o <<Leaf("identifier", "x")>>
           \o CallSite("bar") \o CallSite("qux"),
       CallSite("FOO") \o CallSite("%len")
           \o <<Leaf("identifier", "Foo"),
                Tree("paren_group",
                     <<Leaf("(", "(")>> \o CallSite("bar") \o <<Leaf(")", ")")>>)>> >>

ProcedureTerm(name, body) ==
    Tree("procedure_definition",
         <<Leaf("dcl-proc", "dcl-proc"),
           IF name = "Foo" THEN Field("name", Leaf("identifier", name))
           ELSE Leaf("identifier", name),
           Leaf(";", ";")>> \o body \o <<Leaf("end-proc", "end-proc")>>)

PrototypeTerm(name) ==
    Tree("procedure_prototype",
         <<Leaf("dcl-pr", "dcl-pr"), Field("name", Leaf("identifier", name)),
           Leaf("end-pr", "end-pr")>>)

\* what a unit declares: a prototype or none (""), and a list of procedures
\* <<name, index of the body in Bodies>>
ProcChoices ==
    { <<>>,
      <<<<"Foo", 2>>>>, <<<<"Foo", 3>>>>, <<<<"Foo", 4>>>>,
      <<<<"BAR", 1>>>>, <<<<"BAR", 3>>>>,
      <<<<"Foo", 3>>, <<"BAR", 4>>>> }

ProtoChoices == {"", "FOO"}

RECURSIVE PathTag(_)
PathTag(procs) ==
    IF procs = <<>> THEN ""
    ELSE Head(procs)[1] \o CharAt(Digits, Head(procs)[2] + 1)
         \o PathTag(Tail(procs))

FreeUnit(proto, procs) ==
    LET kids == (IF proto = "" THEN <<>> ELSE <<PrototypeTerm(proto)>>)
                \o [k \in 1..Len(procs) |->
                      ProcedureTerm(procs[k][1], Bodies[procs[k][2]])]
    IN  ParsedFile("src/" \o proto \o PathTag(procs) \o ".rpgle",
                   IF kids = <<>> THEN Leaf("source_file", "")
                   ELSE Tree("source_file", kids))

UnitPool == {FreeUnit(proto, procs) : proto \in ProtoChoices, procs \in ProcChoices}

InputLists == UNION {[1..n -> UnitPool] : n \in 0..MaxFiles}

\* the input lists of repeated build_index calls on one analyzer
MaxRuns == 3

RunUnitA == FreeUnit("", <<<<"Foo", 3>>>>)

RunUnitB == FreeUnit("FOO", <<<<"BAR", 4>>>>)

RunInputs ==
    {<<>>, <<RunUnitA>>, <<RunUnitB>>, <<RunUnitA, RunUnitB>>,
     <<RunUnitB, RunUnitA>>}

(***************************************************************************)
(* Inputs: units holding a fixed-form line, with or without a free-form    *)
(* declaration of the file CUSTFILE, and a procedure that refers to it     *)
(***************************************************************************)
FixedKinds == {"H", "F", "D", "C", "P"}

\* the text of a line from column 7 on: a comment, a named file line, a
\* calculation with its operation in columns 26-35, one with an alphabetic
\* operand in columns 36-49 only, a blank line, a '*' right of column 7, and
\* an operand in columns 36-49 that is not alphabetic
LineTemplates ==
    {"* a comment line that is long enough to reach column 56",
     "                             *in03                   ",
     "CUSTFILE  IF   E           K DISK                    ",
     "                   eval      *inlr = *on             ",
     "                             dsply                   ",
     "                                                     ",
     "  *INLR        ifeq      *ON                         "}

\* line lengths on both sides of every column the extractors test
LineLengths == {6, 7, 12, 16, 17, 21, 22, 26, 35, 36, 49, 56}

FixedLine(kind, template, length) ==
    Slice("     " \o kind \o template, 0, length)

FileDefinitionTerm(name) ==
    Tree("file_definition",
         <<Leaf("dcl-f", "dcl-f"), Leaf("identifier", name),
           Tree("attribute",
                <<Leaf("identifier", "usage"), Leaf("(", "("),
                  Leaf("special_identifier", "*input"), Leaf(")", ")")>>),
           Leaf(";", ";")>>)

ReaderTerm ==
    ProcedureTerm("Load",
        <<Leaf("read", "read"), Leaf("identifier", "custfile"), Leaf(";", ";"),
          Leaf("identifier", "Report"),
          Tree("paren_group",
               <<Leaf("(", "("), Leaf("identifier", "CUSTFILE"),
                 Leaf(")", ")")>>),
          Leaf("read", "read"), Leaf("identifier", "custfile"), Leaf(";", ";")>>)

FixedUnit(kind, template, length, declared) ==
    ParsedFile("src/" \o kind \o ".rpgle",
        Tree("source_file",
             <<Leaf("fixed_" \o Lower(kind) \o "_spec",
                    FixedLine(kind, template, length))>>
             \o (IF declared THEN <<FileDefinitionTerm("CustFile")>> ELSE <<>>)
             \o <<ReaderTerm>>))

FixedInputs ==
    {<<FixedUnit(kind, template, length, declared)>> :
        kind \in FixedKinds, template \in LineTemplates,
        length \in LineLengths, declared \in BOOLEAN}

(***************************************************************************)
(* Inputs: a statement that holds a call after an identifier one level up, *)
(* a built-in function, a call after the last identifier of the group      *)
(* before it, and a group after a special identifier; traversals start at  *)
(* the statement or at one of its groups                                   *)
(***************************************************************************)
MaxWalks == 2

WalkUnit ==
    ParsedFile("src/walk.rpgle",
        Tree("statement",
             <<Leaf("identifier", "foo"),
               Tree("paren_group",
                    <<Leaf("identifier", "%len"),
                      Tree("paren_group", <<Leaf("identifier", "bar")>>)>>),
               Tree("paren_group",
                    <<Leaf("special_identifier", "*in03"),
                      Leaf("paren_group", "()")>>)>>))

(***************************************************************************)
(* Inputs: units with two fixed-form lines of one kind, each line on       *)
(* either side of the minimum lengths 7, 17 and 22, alone or followed by   *)
(* a second unit                                                           *)
(***************************************************************************)
LineTexts ==
    <<"CUSTFILE  IF   E           K DISK",
      "                   eval      *inlr = *on">>

ShortLengths == {0, 6, 7, 16, 17, 21, 22}

LinesUnit(kind, lens) ==
    ParsedFile("src/" \o kind \o "2.rpgle",
        Tree("source_file",
             [k \in 1..Len(lens) |->
                 Leaf("fixed_" \o Lower(kind) \o "_spec",
                      FixedLine(kind, LineTexts[k], lens[k]))]
             \o <<ReaderTerm>>))

LinesInputs ==
    LET units == {LinesUnit(kind, lens) :
                     kind \in {"F", "D", "C"},
                     lens \in [1..2 -> ShortLengths]}
    IN  {<<u>> : u \in units}
        \cup {<<u, FixedUnit("C", LineTexts[2], 36, TRUE)>> : u \in units}

(***************************************************************************)
(* build_index as a state machine                                          *)
(***************************************************************************)
VARIABLES
    parsed_files,   \* the argument of the running (or last) build_index call
    index,          \* index.files
    pc,             \* "idle", "analyze", "collect", "classify", "done"
    i,              \* the cursor of the running loop over files
    j,              \* the cursor of the inner loop over a file's procedures
    all_procs,      \* _categorize_calls' set of lower-cased procedure names
    external_procs, \* _categorize_calls' set of lower-cased prototype names
    pass1,          \* history: index.files when _categorize_calls was entered
    runs,           \* history: the number of build_index calls that returned
    history,        \* history: per returned call, its input and its document
    walks,          \* the loops 'for child, _ in iter_nodes(node)' in progress
    cli             \* the command line's main(): its stage and its two lists

vars ==
    <<parsed_files, index, pc, i, j, all_procs, external_procs, pass1, runs,
      history, walks, cli>>

Init ==
    /\ parsed_files = <<>>
    /\ index = <<>>
    /\ pc = "idle"
    /\ i = 1
    /\ j = 1
    /\ all_procs = {}
    /\ external_procs = {}
    /\ pass1 = <<>>
    /\ runs = 0
    /\ history = <<>>
    /\ walks = <<>>
    /\ cli = [stage |-> "shell", built |-> TRUE, disk |-> <<>>, k |-> 1,
              parsed_files |-> <<>>, parse_errors |-> <<>>]

\* build_index is entered: index = ProgramIndex()
Call(inputs) ==
    /\ parsed_files' = inputs
    /\ index' = <<>>
    /\ pc' = "analyze"
    /\ i' = 1
    /\ UNCHANGED <<j, all_procs, external_procs, pass1, runs, history,
                   walks, cli>>

BuildIndex ==
    /\ pc = "idle"
    /\ \E inputs \in InputLists : Call(inputs)

\* AnalyzeFile with insert(0, ...) for append
AnalyzeFilePrepend ==
    /\ pc = "analyze"
    /\ i <= Len(parsed_files)
    /\ index' = <<_analyze_file(parsed_files[i])>> \o index
    /\ i' = i + 1
    /\ UNCHANGED <<parsed_files, pc, j, all_procs, external_procs, pass1, runs, history,
                   walks, cli>>

\* AnalyzeFile looking references up in the file names of all input units
AnalyzeFileAllNames ==
    /\ pc = "analyze"
    /\ i <= Len(parsed_files)
    /\ index' = Append(index,
                    [_analyze_file(parsed_files[i]) EXCEPT !.procedures =
                        Procedures(parsed_files[i],
                            UNION {FileNames(FileDefs(parsed_files[f])) :
                                     f \in 1..Len(parsed_files)})])
    /\ i' = i + 1
    /\ UNCHANGED <<parsed_files, pc, j, all_procs, external_procs, pass1, runs,
                   history, walks, cli>>

\* one turn of the loop of lines 244-246
AnalyzeFile ==
    /\ pc = "analyze"
    /\ i <= Len(parsed_files)
    /\ index' = Append(index, _analyze_file(parsed_files[i]))
    /\ i' = i + 1
    /\ UNCHANGED <<parsed_files, pc, j, all_procs, external_procs, pass1, runs, history,
                   walks, cli>>

\* EnterCategorize with the two sets kept on the analyzer between calls
EnterCategorizeKeepSets ==
    /\ pc = "analyze"
    /\ i > Len(parsed_files)
    /\ pass1' = index
    /\ pc' = "collect"
    /\ i' = 1
    /\ UNCHANGED <<parsed_files, index, j, all_procs, external_procs, runs,
                   history,
                   walks, cli>>

\* line 249 and lines 526-527: _categorize_calls is entered
EnterCategorize ==
    /\ pc = "analyze"
    /\ i > Len(parsed_files)
    /\ all_procs' = {}
    /\ external_procs' = {}
    /\ pass1' = index
    /\ pc' = "collect"
    /\ i' = 1
    /\ UNCHANGED <<parsed_files, index, j, runs, history,
                   walks, cli>>

\* one turn of the loop of lines 529-533
CollectNames ==
    /\ pc = "collect"
    /\ i <= Len(index)
    /\ all_procs' = all_procs \cup ProcNamesLower(index[i])
    /\ external_procs' = external_procs \cup ProtoNamesLower(index[i])
    /\ i' = i + 1
    /\ UNCHANGED <<parsed_files, index, pc, j, pass1, runs, history,
                   walks, cli>>

\* BeginClassify leaving the collecting loop after its first turn
BeginClassifyEarly ==
    /\ pc = "collect"
    /\ i > 1 \/ i > Len(index)
    /\ pc' = "classify"
    /\ i' = 1
    /\ j' = 1
    /\ UNCHANGED <<parsed_files, index, all_procs, external_procs, pass1, runs, history,
                   walks, cli>>

\* the loop of lines 529-533 ends, the loop of line 536 begins
BeginClassify ==
    /\ pc = "collect"
    /\ i > Len(index)
    /\ pc' = "classify"
    /\ i' = 1
    /\ j' = 1
    /\ UNCHANGED <<parsed_files, index, all_procs, external_procs, pass1, runs, history,
                   walks, cli>>

\* ClassifyProc knowing only the names of the files up to file i
ClassifyProcSeenSoFar ==
    /\ pc = "classify"
    /\ i <= Len(index)
    /\ j <= Len(index[i].procedures)
    /\ index' = [index EXCEPT ![i].procedures[j] =
                    CategorizeProc(@,
                        UNION {ProcNamesLower(index[f]) : f \in 1..i},
                        UNION {ProtoNamesLower(index[f]) : f \in 1..i})]
    /\ j' = j + 1
    /\ UNCHANGED <<parsed_files, pc, i, all_procs, external_procs, pass1, runs,
                   history, walks, cli>>

\* one turn of the loop of line 537: lines 538-552 for procedure j of file i
ClassifyProc ==
    /\ pc = "classify"
    /\ i <= Len(index)
    /\ j <= Len(index[i].procedures)
    /\ index' = [index EXCEPT ![i].procedures[j] =
                    CategorizeProc(@, all_procs, external_procs)]
    /\ j' = j + 1
    /\ UNCHANGED <<parsed_files, pc, i, all_procs, external_procs, pass1, runs, history,
                   walks, cli>>

\* the loop of line 537 ends for file i
NextFile ==
    /\ pc = "classify"
    /\ i <= Len(index)
    /\ j > Len(index[i].procedures)
    /\ i' = i + 1
    /\ j' = 1
    /\ UNCHANGED <<parsed_files, index, pc, all_procs, external_procs, pass1, runs, history,
                   walks, cli>>

\* line 251: return index
Return ==
    /\ pc = "classify"
    /\ i > Len(index)
    /\ pc' = "done"
    /\ runs' = runs + 1
    /\ history' = Append(history, [input |-> parsed_files,
                                   document |-> to_json(index)])
    /\ UNCHANGED <<parsed_files, index, i, j, all_procs, external_procs, pass1,
                   walks, cli>>

Steps ==
    \/ AnalyzeFile
    \/ EnterCategorize
    \/ CollectNames
    \/ BeginClassify
    \/ ClassifyProc
    \/ NextFile
    \/ Return

Next == BuildIndex \/ Steps

Spec == Init /\ [][Next]_vars

\* one analyzer, build_index called again and again
BuildIndexRun ==
    /\ pc \in {"idle", "done"}
    /\ runs < MaxRuns
    /\ \E inputs \in RunInputs : Call(inputs)

NextRuns == BuildIndexRun \/ Steps

SpecRuns == Init /\ [][NextRuns]_vars

\* build_index on one unit with a fixed-form line
BuildIndexFixed ==
    /\ pc = "idle"
    /\ \E inputs \in FixedInputs : Call(inputs)

NextFixed == BuildIndexFixed \/ Steps

SpecFixed == Init /\ [][NextFixed]_vars

\* build_index on units with two fixed-form lines
BuildIndexLines ==
    /\ pc = "idle"
    /\ \E inputs \in LinesInputs : Call(inputs)

NextLines == BuildIndexLines \/ Steps

SpecLines == Init /\ [][NextLines]_vars

\* _categorize_calls(index) is applied once more to the index build_index
\* returned (lines 526-527 again); its end is counted like a return
CategorizeAgain ==
    /\ pc = "done"
    /\ runs = 1
    /\ all_procs' = {}
    /\ external_procs' = {}
    /\ pass1' = index
    /\ pc' = "collect"
    /\ i' = 1
    /\ UNCHANGED <<parsed_files, index, j, runs, history, walks, cli>>

NextTwice == BuildIndex \/ Steps \/ CategorizeAgain

SpecTwice == Init /\ [][NextTwice]_vars

\* build_index on one unit that holds a comment and a procedure, either of
\* them with or without characters of two bytes
BuildIndexWide ==
    /\ pc = "idle"
    /\ \E note \in {"// Preis", "// Gr~~e", "// ~"},
          name \in {"Load", "Pr~fen"}, body \in 1..Len(Bodies) :
          Call(<<ParsedFile("src/" \o name \o ".rpgle",
                   Tree("source_file",
                        <<Leaf("comment", note),
                          ProcedureTerm(name, Bodies[body])>>))>>)

NextWide == BuildIndexWide \/ Steps

SpecWide == Init /\ [][NextWide]_vars

(***************************************************************************)
(* iter_nodes as a generator (parser.py), driven by the loop of            *)
(* _find_call_targets (analysis.py).  A generator is a stack of frames     *)
(* [node, parent, k]: the frame of iter_nodes(node, parent) has yielded    *)
(* its own pair and is delegating to the generator of its k-th child       *)
(* (k = 0: to none yet).                                                   *)
(***************************************************************************)
\* the analyzer holds the unit whose nodes are traversed
InitWalk ==
    /\ parsed_files = <<WalkUnit>>
    /\ index = <<>>
    /\ pc = "idle"
    /\ i = 1
    /\ j = 1
    /\ all_procs = {}
    /\ external_procs = {}
    /\ pass1 = <<>>
    /\ runs = 0
    /\ history = <<>>
    /\ walks = <<>>
    /\ cli = [stage |-> "shell", built |-> TRUE, disk |-> <<>>, k |-> 1,
              parsed_files |-> <<>>, parse_errors |-> <<>>]

\* Resume with the children taken from the right
RECURSIVE ResumeRightToLeft(_)
ResumeRightToLeft(stack) ==
    IF stack = <<>> THEN <<>>
    ELSE LET top == stack[Len(stack)]
             children == parsed_files[1].nodes[top.node].children
         IN  IF top.k < Len(children)
             THEN [stack EXCEPT ![Len(stack)].k = top.k + 1]
                  \o <<[node |-> children[Len(children) - top.k],
                        parent |-> top.node, k |-> 0]>>
             ELSE ResumeRightToLeft(SubSeq(stack, 1, Len(stack) - 1))

\* a started generator is resumed: the innermost frame goes on to its next
\* child, whose new frame yields at once (lines 115-116 and 114); a frame
\* without a further child ends and its caller goes on.  <<>>: StopIteration.
RECURSIVE Resume(_)
Resume(stack) ==
    IF stack = <<>> THEN <<>>
    ELSE LET top == stack[Len(stack)]
             children == parsed_files[1].nodes[top.node].children
         IN  IF top.k < Len(children)
             THEN [stack EXCEPT ![Len(stack)].k = top.k + 1]
                  \o <<[node |-> children[top.k + 1],
                        parent |-> top.node, k |-> 0]>>
             ELSE Resume(SubSeq(stack, 1, Len(stack) - 1))

\* _find_call_targets(node, source) is called on the statement or a group
\* of the unit: the generators are created, nothing has run
StartWalk ==
    /\ Len(walks) < MaxWalks
    /\ \E node \in {n \in 1..Len(parsed_files[1].nodes) :
                        parsed_files[1].nodes[n].type \notin IdentifierKinds} :
          walks' = Append(walks, [node |-> node, state |-> "created",
                                  stack |-> <<>>, pairs |-> <<>>,
                                  targets |-> <<>>])
    /\ UNCHANGED <<parsed_files, index, pc, i, j, all_procs, external_procs,
                   pass1, runs, history, cli>>

\* the loop of walk w asks for the next pair; it gets one and runs its body
\* (lines 205-212), or the generator is exhausted and the loop ends
Advance(w) ==
    /\ w <= Len(walks)
    /\ walks[w].state /= "done"
    /\ LET stack == IF walks[w].state = "created"
                    THEN <<[node |-> walks[w].node, parent |-> 0, k |-> 0]>>
                    ELSE Resume(walks[w].stack)
           top == stack[Len(stack)]
           pairs == Append(walks[w].pairs, <<top.node, top.parent>>)
       IN  walks' =
             [walks EXCEPT ![w] =
                IF stack = <<>>
                THEN [@ EXCEPT !.state = "done", !.stack = <<>>]
                ELSE [@ EXCEPT !.state = "running", !.stack = stack,
                               !.pairs = pairs,
                               !.targets =
                                   @ \o CallTargetAt(parsed_files[1], pairs,
                                                     Len(pairs))]]
    /\ UNCHANGED <<parsed_files, index, pc, i, j, all_procs, external_procs,
                   pass1, runs, history, cli>>

NextWalk == StartWalk \/ \E w \in 1..MaxWalks : Advance(w)

\* while a loop has not ended, some loop asks again
SpecWalk ==
    InitWalk /\ [][NextWalk]_vars /\ WF_vars(\E w \in 1..MaxWalks : Advance(w))

(***************************************************************************)
(* Vocabulary of the properties                                            *)
(***************************************************************************)
Returned == pc = "done"

\* <<f, p>>: procedure p of file record f
ProcSlots(files) ==
    UNION {{<<f, p>> : p \in 1..Len(files[f].procedures)} : f \in 1..Len(files)}

\* the call targets pass 1 detected for the procedure in slot s
Detected(s) == pass1[s[1]].procedures[s[2]].calls_internal

Internal(s) == index[s[1]].procedures[s[2]].calls_internal

External(s) == index[s[1]].procedures[s[2]].calls_external

Elems(xs) == {xs[k] : k \in 1..Len(xs)}

Count(x, xs) == Cardinality({k \in 1..Len(xs) : xs[k] = x})

SameNameIgnoringCase(a, b) == Lower(a) = Lower(b)

\* the procedure names and the prototype names of the whole analyzed set
DefinedNames == {index[s[1]].procedures[s[2]].name : s \in ProcSlots(index)}

PrototypeNames == UNION {Elems(index[f].prototypes) : f \in 1..Len(index)}

IsDefined(call) == \E d \in DefinedNames : SameNameIgnoringCase(call, d)

IsPrototyped(call) == \E q \in PrototypeNames : SameNameIgnoringCase(call, q)

RECURSIVE IsSubsequence(_, _)
IsSubsequence(xs, ys) ==
    IF xs = <<>> THEN TRUE
    ELSE IF ys = <<>> THEN FALSE
    ELSE IF Head(xs) = Head(ys) THEN IsSubsequence(Tail(xs), Tail(ys))
    ELSE IsSubsequence(xs, Tail(ys))

(***************************************************************************)
(* C1..C6, C8: the classification pass and the index                       *)
(***************************************************************************)
\* C1: after build_index the two call lists of every procedure partition the
\* call sites detected in pass 1: no name is in both lists, together they hold
\* exactly the detected targets, and every target occurs in them as often as
\* it was detected (so the lengths add up).
C1_ClassificationPartition ==
    Returned =>
        /\ ProcSlots(index) = ProcSlots(pass1)
        /\ \A s \in ProcSlots(index) :
              /\ Elems(Internal(s)) \cap Elems(External(s)) = {}
              /\ Elems(Internal(s)) \cup Elems(External(s)) = Elems(Detected(s))
              /\ Len(Internal(s)) + Len(External(s)) = Len(Detected(s))
              /\ \A c \in Elems(Detected(s)) :
                    Count(c, Internal(s)) + Count(c, External(s))
                        = Count(c, Detected(s))

\* a procedure with a repeated target and both lists non-empty
C1_Witness ==
    /\ Returned
    /\ \E s \in ProcSlots(index) :
          /\ Internal(s) /= <<>>
          /\ External(s) /= <<>>
          /\ \E c \in Elems(Detected(s)) : Count(c, Detected(s)) > 1

\* C2: a call whose lower-cased name is that of a prototype of any analyzed
\* file is external in every procedure of every file, also when a procedure
\* of that name is defined; it is never in calls_internal.
C2_PrototypePrecedence ==
    Returned =>
        \A s \in ProcSlots(index) : \A c \in Elems(Detected(s)) :
            IsPrototyped(c) =>
                /\ c \in Elems(External(s))
                /\ c \notin Elems(Internal(s))

\* a call to a name that is prototyped in one file and defined in another
C2_Witness ==
    /\ Returned
    /\ Len(index) = 2
    /\ index[1].prototypes = <<>>
    /\ index[2].procedures = <<>>
    /\ \E s \in ProcSlots(index) : \E c \in Elems(Detected(s)) :
          IsPrototyped(c) /\ IsDefined(c) /\ c \in Elems(External(s))

\* C3: a call whose lower-cased name is neither a defined procedure's nor a
\* prototype's is external and not internal.
C3_UnresolvedDefault ==
    Returned =>
        \A s \in ProcSlots(index) : \A c \in Elems(Detected(s)) :
            (~IsDefined(c) /\ ~IsPrototyped(c)) =>
                /\ c \in Elems(External(s))
                /\ c \notin Elems(Internal(s))

C3_Witness ==
    /\ Returned
    /\ \E s \in ProcSlots(index) : \E c \in Elems(Detected(s)) :
          ~IsDefined(c) /\ ~IsPrototyped(c) /\ c \in Elems(External(s))

\* C4: a call is internal exactly when its lower-cased name is that of a
\* procedure defined in some file of the analyzed set and of no prototype of
\* any file, letter case ignored on both sides.
C4_InternalIff ==
    Returned =>
        \A s \in ProcSlots(index) : \A c \in Elems(Detected(s)) :
            c \in Elems(Internal(s)) <=> (IsDefined(c) /\ ~IsPrototyped(c))

\* a call in the first file made internal by a procedure that only the second
\* file defines, under another spelling
C4_Witness ==
    /\ Returned
    /\ Len(index) = 2
    /\ \E p \in 1..Len(index[1].procedures) :
       \E c \in Elems(Internal(<<1, p>>)) :
          /\ c \notin DefinedNames
          /\ \A q \in 1..Len(index[1].procedures) :
                ~SameNameIgnoringCase(c, index[1].procedures[q].name)
          /\ \E q \in 1..Len(index[2].procedures) :
                SameNameIgnoringCase(c, index[2].procedures[q].name)

\* C5: the pass replaces the call lists: each of the two lists is a
\* subsequence of the detected list (detection order and call-site spelling
\* kept) and nothing of the provisional list stays behind.
C5_ReplacedSubsequences ==
    Returned =>
        \A s \in ProcSlots(index) :
            /\ IsSubsequence(Internal(s), Detected(s))
            /\ IsSubsequence(External(s), Detected(s))
            /\ Len(Internal(s)) + Len(External(s)) = Len(Detected(s))

\* both lists hold two or more targets and the internal ones were detected
\* under two spellings
C5_Witness ==
    /\ Returned
    /\ \E s \in ProcSlots(index) :
          /\ Len(External(s)) >= 2
          /\ \E a, b \in Elems(Internal(s)) :
                a /= b /\ SameNameIgnoringCase(a, b)

\* C6: the returned index has one file record per input unit, in input order,
\* with the unit's path.
C6_OneRecordPerUnit ==
    Returned =>
        /\ Len(index) = Len(parsed_files)
        /\ \A k \in 1..Len(index) : index[k].path = parsed_files[k].path

C6_Witness ==
    /\ Returned
    /\ Len(parsed_files) = 2
    /\ index[1].path /= index[2].path

\* C8: while calls are classified the index holds a record of every input
\* unit and the two name sets hold the names of all files, unchanged; when the
\* first call is about to be classified every record is the unit's completed
\* extraction; before that no call is classified.
C8_StrictBarrier ==
    /\ pc = "classify" =>
          /\ Len(pass1) = Len(parsed_files)
          /\ Len(index) = Len(parsed_files)
          /\ all_procs = {Lower(d) : d \in DefinedNames}
          /\ external_procs = {Lower(q) : q \in PrototypeNames}
    /\ (pc = "classify" /\ i = 1 /\ j = 1) =>
          \A k \in 1..Len(parsed_files) :
              index[k] = _analyze_file(parsed_files[k])
    /\ pc \in {"analyze", "collect"} =>
          \A s \in ProcSlots(index) : External(s) = <<>>

\* the first file's procedure has been classified and a call of it is internal
\* by a procedure of the last file only, while the pass is still running
C8_Witness ==
    /\ pc = "classify"
    /\ Len(index) = 2
    /\ i = 1
    /\ j = 2
    /\ \E c \in Elems(Internal(<<1, 1>>)) :
          /\ \A q \in 1..Len(index[1].procedures) :
                ~SameNameIgnoringCase(c, index[1].procedures[q].name)
          /\ \E q \in 1..Len(index[2].procedures) :
                SameNameIgnoringCase(c, index[2].procedures[q].name)

(***************************************************************************)
(* C7: determinism over repeated calls (SpecRuns)                          *)
(***************************************************************************)
\* C7: two build_index calls of one analyzer on the same ordered list of
\* units return indexes with the same serialised document, whatever was
\* analyzed in between.
C7_Deterministic ==
    \A a, b \in 1..Len(history) :
        history[a].input = history[b].input =>
            history[a].document = history[b].document

\* the same two units analyzed first and third, another list in between
C7_Witness ==
    /\ Len(history) = 3
    /\ Len(history[1].input) = 2
    /\ history[3].input = history[1].input
    /\ history[2].input /= history[1].input
    /\ history[2].input /= <<>>
    /\ history[3].document = history[1].document

(***************************************************************************)
(* C9, C10: fixed-form lines (SpecFixed)                                   *)
(***************************************************************************)
\* the procedure_definition nodes that yield a procedure record, in order
RECURSIVE SelectNamed(_, _)
SelectNamed(parsed, ns) ==
    IF ns = <<>> THEN <<>>
    ELSE (IF Truthy(_get_identifier_name(parsed, Head(ns)))
          THEN <<Head(ns)>> ELSE <<>>) \o SelectNamed(parsed, Tail(ns))

ProcedureNodes(parsed) ==
    SelectNamed(parsed, find_nodes_by_type(parsed, root_node(parsed),
                                           "procedure_definition"))

\* the texts of the identifier nodes of the subtree of n
IdentifierTexts(parsed, n) ==
    LET ids == find_nodes_by_type(parsed, n, "identifier")
    IN  {node_text(parsed, ids[k]) : k \in 1..Len(ids)}

\* C9: an identifier of a procedure that matches, ignoring case, the name of
\* a fixed-form F record of its unit is in the procedure's uses_files.
C9_FSpecFeedsFileReferences ==
    Returned =>
        \A f \in 1..Len(index) :
        \A r \in Elems(index[f].fixed_f_specs) :
        \A p \in 1..Len(index[f].procedures) :
            Truthy(r.name) =>
                \A t \in IdentifierTexts(parsed_files[f],
                                         ProcedureNodes(parsed_files[f])[p]) :
                    SameNameIgnoringCase(t, r.name[1]) =>
                        t \in Elems(index[f].procedures[p].uses_files)

\* the raw lines of the nodes of a kind that have '*' in column 7
CommentLines(parsed, kind) ==
    LET ns == find_nodes_by_type(parsed, root_node(parsed), kind)
    IN  {node_text(parsed, ns[k]) : k \in
            {k \in 1..Len(ns) : Slice(node_text(parsed, ns[k]), 6, 7) = "*"}}

HasCommentRecord(specs, spec_type, line) ==
    \E r \in Elems(specs) :
        r.spec_type = spec_type /\ r.raw_line = line /\ r.name = None

\* C10: every F, D or C line with '*' in column 7 has a record of its kind
\* with the raw line and no name, whatever the line's length.
C10_CommentLinesKept ==
    Returned =>
        \A f \in 1..Len(index) :
            /\ \A l \in CommentLines(parsed_files[f], "fixed_f_spec") :
                  HasCommentRecord(index[f].fixed_f_specs, "F", l)
            /\ \A l \in CommentLines(parsed_files[f], "fixed_d_spec") :
                  HasCommentRecord(index[f].fixed_d_specs, "D", l)
            /\ \A l \in CommentLines(parsed_files[f], "fixed_c_spec") :
                  HasCommentRecord(index[f].fixed_c_specs, "C", l)

(***************************************************************************)
(* C11, C12: comment lines and names of F and D lines (SpecFixed)          *)
(***************************************************************************)
\* the character in column 7 of a line ("" when the line is shorter)
Column7(line) == Slice(line, 6, 7)

\* the F and D records of the returned index
NamedRecords ==
    UNION {Elems(index[f].fixed_f_specs) \cup Elems(index[f].fixed_d_specs) :
             f \in 1..Len(index)}

\* C11: an F or D record is that of a comment (its name is absent) if and
\* only if column 7 of its line holds '*'; a '*' further right in the name
\* field does not make the line a comment.
C11_CommentColumn ==
    Returned =>
        \A r \in NamedRecords : r.name = None <=> Column7(r.raw_line) = "*"

\* C12: the record of a D line of 22 or more characters that is not a
\* comment (column 7 is not '*') has kind D and as its name the text of
\* columns 7-21 without the surrounding whitespace.
C12_DefinitionName ==
    Returned =>
        \A f \in 1..Len(index) : \A r \in Elems(index[f].fixed_d_specs) :
            (Len(r.raw_line) >= 22 /\ Column7(r.raw_line) /= "*") =>
                /\ r.spec_type = "D"
                /\ r.name = Some(Strip(Slice(r.raw_line, 6, 21)))

(***************************************************************************)
(* C13: short lines (SpecLines)                                            *)
(***************************************************************************)
\* the texts of the nodes of a kind, in document order
LinesOf(parsed, kind) ==
    LET ns == find_nodes_by_type(parsed, root_node(parsed), kind)
    IN  [k \in 1..Len(ns) |-> node_text(parsed, ns[k])]

\* the lines of at least n characters, in order
LongEnough(lines, n) ==
    Concat([k \in 1..Len(lines) |->
              IF Len(lines[k]) >= n THEN <<lines[k]>> ELSE <<>>])

RawLines(specs) == [k \in 1..Len(specs) |-> specs[k].raw_line]

\* C13: a C line of fewer than 7 characters, an F line of fewer than 17 and
\* a D line of fewer than 22 yield no record, the other lines of the unit
\* keep their records in document order, and the record of another unit is
\* what the unit yields on its own.
C13_ShortLinesSkipped ==
    Returned =>
        \A f \in 1..Len(index) :
            /\ RawLines(index[f].fixed_c_specs)
                  = LongEnough(LinesOf(parsed_files[f], "fixed_c_spec"), 7)
            /\ RawLines(index[f].fixed_f_specs)
                  = LongEnough(LinesOf(parsed_files[f], "fixed_f_spec"), 17)
            /\ RawLines(index[f].fixed_d_specs)
                  = LongEnough(LinesOf(parsed_files[f], "fixed_d_spec"), 22)
            /\ (f = 2 => pass1[f] = _analyze_file(parsed_files[f]))

\* a C line of 6 characters before one of 22 in the first of two units: one
\* record, that of the second line, and the second unit has its own record
C13_Witness ==
    /\ Returned
    /\ Len(index) = 2
    /\ LET lines == LinesOf(parsed_files[1], "fixed_c_spec")
       IN  /\ Len(lines) = 2
           /\ Len(lines[1]) = 6
           /\ Len(lines[2]) = 22
           /\ RawLines(index[1].fixed_c_specs) = <<lines[2]>>
    /\ Len(index[2].fixed_c_specs) = 1

(***************************************************************************)
(* C14: the operation code of a C line (SpecFixed)                         *)
(***************************************************************************)
\* the operation code the claim describes: columns 26-35 trimmed and in
\* upper case, else columns 36-49 likewise when alphabetic, else none ("")
ResolvedCode(line) ==
    LET code == Upper(Strip(Slice(line, 25, 35)))
        operand == Strip(Slice(line, 35, 49))
    IN  IF code /= "" THEN code
        ELSE IF IsAlpha(operand) THEN Upper(operand)
        ELSE ""

\* C14: the record of a C line that is not a comment has the resolved code
\* as its name and as its keywords entry 'opcode', or no name and no
\* keywords when there is no code; name and keywords agree in every C record.
C14_OperationCode ==
    Returned =>
        \A f \in 1..Len(index) : \A r \in Elems(index[f].fixed_c_specs) :
            /\ Column7(r.raw_line) /= "*" =>
                  IF ResolvedCode(r.raw_line) = ""
                  THEN r.name = None /\ r.keywords = <<>>
                  ELSE /\ r.name = Some(ResolvedCode(r.raw_line))
                       /\ r.keywords
                            = <<<<"opcode", ResolvedCode(r.raw_line)>>>>
            /\ \/ r.name = None /\ r.keywords = <<>>
               \/ r.name /= None /\ r.keywords = <<<<"opcode", r.name[1]>>>>

\* columns 26-35 blank and an alphabetic operand in columns 36-49
C14_Witness ==
    /\ Returned
    /\ \E f \in 1..Len(index) : \E r \in Elems(index[f].fixed_c_specs) :
          /\ Len(r.raw_line) > 48
          /\ Strip(Slice(r.raw_line, 25, 35)) = ""
          /\ r.name = Some("DSPLY")
          /\ r.keywords = <<<<"opcode", "DSPLY">>>>

(***************************************************************************)
(* C15: file references of a procedure (SpecFixed)                         *)
(***************************************************************************)
\* the identifier nodes below procedure p of unit f whose text is, without
\* case, the name of a file declaration of the unit; node numbers are in
\* document order
FileIdentifiers(f, p) ==
    LET parsed == parsed_files[f]
        ids == Elems(find_nodes_by_type(parsed, ProcedureNodes(parsed)[p],
                                        "identifier"))
    IN  {n \in ids :
            \E d \in Elems(FileDefs(parsed)) :
                SameNameIgnoringCase(node_text(parsed, n), d.name)}

\* the first node below procedure p of unit f that spells a reference as t
FirstSpelled(f, p, t) ==
    CHOOSE n \in FileIdentifiers(f, p) :
        /\ node_text(parsed_files[f], n) = t
        /\ \A o \in FileIdentifiers(f, p) :
              node_text(parsed_files[f], o) = t => n <= o

\* C15: uses_files of a procedure holds exactly the spellings of the
\* identifiers of its subtree that match a declared file without case, each
\* spelling once, in the order of their first occurrences.
C15_FileReferences ==
    Returned =>
        \A s \in ProcSlots(index) :
            LET uses == index[s[1]].procedures[s[2]].uses_files
            IN  /\ Elems(uses)
                     = {node_text(parsed_files[s[1]], n) :
                            n \in FileIdentifiers(s[1], s[2])}
                /\ \A t \in Elems(uses) : Count(t, uses) = 1
                /\ \A a, b \in 1..Len(uses) :
                      a < b => FirstSpelled(s[1], s[2], uses[a])
                                 < FirstSpelled(s[1], s[2], uses[b])

\* a declared CustFile read as custfile, CUSTFILE and custfile again
C15_Witness ==
    /\ Returned
    /\ \E s \in ProcSlots(index) :
          /\ Cardinality(FileIdentifiers(s[1], s[2])) = 3
          /\ index[s[1]].procedures[s[2]].uses_files
                = <<"custfile", "CUSTFILE">>

(***************************************************************************)
(* C19: attributes of a declaration (SpecFixed)                            *)
(***************************************************************************)
\* the children of kind 'attribute' of node n
AttributeNodes(parsed, n) ==
    {a \in Elems(parsed.nodes[n].children) :
        parsed.nodes[a].type = "attribute"}

\* the first child of attribute a that is an identifier or special_identifier
KeyNode(parsed, a) ==
    LET named == {c \in Elems(parsed.nodes[a].children) :
                     parsed.nodes[c].type \in IdentifierKinds}
    IN  CHOOSE c \in named : \A o \in named : c <= o

\* the texts of the other children of attribute a that are not delimiters,
\* in order
ArgumentTexts(parsed, a) ==
    LET cs == parsed.nodes[a].children
    IN  Concat([k \in 1..Len(cs) |->
                  IF \/ cs[k] = KeyNode(parsed, a)
                     \/ parsed.nodes[cs[k]].type \in AttributeDelimiters
                  THEN <<>> ELSE <<node_text(parsed, cs[k])>>])

\* C19: every attribute of a file definition gives its record the entry
\* <<lower-cased text of the first identifier-kind child, texts of all its
\* other children that are not delimiters>>.
C19_AttributeArguments ==
    Returned =>
        \A f \in 1..Len(index) :
        \A n \in Elems(find_nodes_by_type(parsed_files[f],
                                          root_node(parsed_files[f]),
                                          "file_definition")) :
        \A a \in AttributeNodes(parsed_files[f], n) :
            \E d \in Elems(index[f].file_defs) :
                <<Lower(node_text(parsed_files[f], KeyNode(parsed_files[f], a))),
                  ArgumentTexts(parsed_files[f], a)>> \in Elems(d.keywords)

(***************************************************************************)
(* C20: the schema of the serialised index (Spec)                          *)
(***************************************************************************)
FileKeys ==
    <<"path", "procedures", "subroutines", "file_defs", "constants",
      "data_structures", "prototypes", "fixed_h_specs", "fixed_f_specs",
      "fixed_d_specs", "fixed_c_specs", "fixed_p_specs">>

\* the keys of a serialised object, in order
Keys(d) == [k \in 1..Len(d) |-> d[k][1]]

\* C20: the serialised index has the one key 'files'; every file object has
\* each of the twelve keys once, whatever the unit holds; there are as many
\* file objects as input units.
C20_SchemaStable ==
    Returned =>
        LET doc == to_dict(index)
        IN  /\ Keys(doc) = <<"files">>
            /\ Len(doc[1][2]) = Len(parsed_files)
            /\ \A k \in 1..Len(doc[1][2]) :
                  \A key \in Elems(FileKeys) :
                      Count(key, Keys(doc[1][2][k])) = 1

\* a unit without anything to extract next to one with a procedure
C20_Witness ==
    /\ Returned
    /\ Len(parsed_files) = 2
    /\ Len(parsed_files[1].nodes) = 1
    /\ index[1].procedures = <<>>
    /\ index[2].procedures /= <<>>
    /\ Len(to_dict(index)[1][2]) = 2

(***************************************************************************)
(* C17, C16: traversals and the call targets found on them (SpecWalk)      *)
(***************************************************************************)
\* the unit whose nodes are traversed
Walked == parsed_files[1]

\* the parent of node c of the walked unit, 0 for its root
ParentOf(c) ==
    IF \E p \in 1..Len(Walked.nodes) :
           c \in Elems(Walked.nodes[p].children)
    THEN CHOOSE p \in 1..Len(Walked.nodes) :
             c \in Elems(Walked.nodes[p].children)
    ELSE 0

\* the nodes of the subtree of n
RECURSIVE Below(_)
Below(n) ==
    {n} \cup UNION {Below(c) : c \in Elems(Walked.nodes[n].children)}

\* the place of node x among the pairs yielded, 0 if it was not yielded
Place(pairs, x) ==
    IF \E m \in 1..Len(pairs) : pairs[m][1] = x
    THEN CHOOSE m \in 1..Len(pairs) : pairs[m][1] = x
    ELSE 0

\* the pairs are, as far as they go, a pre-order traversal from node n: no
\* node twice, only nodes of the subtree, the start node first with parent
\* None, every other node with its parent and after it, and the whole
\* subtree of a child before its next sibling
PreOrderSoFar(pairs, n) ==
    /\ \A a, b \in 1..Len(pairs) : pairs[a][1] = pairs[b][1] => a = b
    /\ \A m \in 1..Len(pairs) :
          /\ pairs[m][1] \in Below(n)
          /\ IF m = 1 THEN pairs[m] = <<n, 0>>
             ELSE /\ pairs[m][2] = ParentOf(pairs[m][1])
                  /\ Place(pairs, pairs[m][2]) \in 1..(m - 1)
    /\ \A p \in Below(n) :
          LET cs == Walked.nodes[p].children
          IN  \A a, b \in 1..Len(cs) :
                (a < b /\ Place(pairs, cs[b]) /= 0) =>
                    \A d \in Below(cs[a]) :
                        Place(pairs, d) \in 1..(Place(pairs, cs[b]) - 1)

\* C17: every traversal, whatever else is traversed before it or meanwhile,
\* yields a pre-order traversal from its start node, is complete when it
\* ends, and does end: from some point on every traversal begun has ended.
C17_PreOrderTraversal ==
    /\ [](\A w \in 1..Len(walks) :
            /\ PreOrderSoFar(walks[w].pairs, walks[w].node)
            /\ walks[w].state = "done" =>
                  /\ {walks[w].pairs[m][1] : m \in 1..Len(walks[w].pairs)}
                       = Below(walks[w].node)
                  /\ walks[w].pairs = iter_nodes(Walked, walks[w].node, 0))
    /\ <>[](\A w \in 1..Len(walks) : walks[w].state = "done")

\* two traversals from the root, the second begun and ended between two
\* steps of the first
C17_Witness ==
    /\ Len(walks) = 2
    /\ walks[1].node = 1
    /\ walks[2].node = 1
    /\ walks[1].state = "running"
    /\ Len(walks[1].pairs) = 3
    /\ walks[2].state = "done"
    /\ Len(walks[2].pairs) = Len(Walked.nodes)

\* the call targets the claim describes for a traversal from node n, as
\* nodes; node numbers follow the document, so the node visited immediately
\* before node c is c - 1
TargetNodes(n) ==
    {c \in Below(n) \ {n} :
        /\ Walked.nodes[c].type = "paren_group"
        /\ Walked.nodes[c - 1].type = "identifier"
        /\ ~StartsWith(node_text(Walked, c - 1), "%")}

\* C16: the targets found from a node are the texts of the identifiers
\* visited immediately before a paren_group, built-ins left out, in the order
\* of the traversal.
C16_CallTargets ==
    \A w \in 1..Len(walks) :
        walks[w].state = "done" =>
            LET found == walks[w].targets
                nodes == TargetNodes(walks[w].node)
            IN  /\ Len(found) = Cardinality(nodes)
                /\ \A m \in 1..Len(found) :
                      \E c \in nodes :
                          /\ Cardinality({d \in nodes : d <= c}) = m
                          /\ found[m] = node_text(Walked, c - 1)
                /\ found = _find_call_targets(Walked, walks[w].node)

\* from the root: foo and bar, not %len and not *in03; from the first
\* group, which is visited first: nothing
C16_Witness ==
    /\ Len(walks) = 2
    /\ walks[1].node = 1 /\ walks[1].state = "done"
    /\ walks[1].targets = <<"foo", "bar">>
    /\ walks[2].node = 3 /\ walks[2].state = "done"
    /\ Len(walks[2].pairs) = 4
    /\ walks[2].targets = <<>>

(***************************************************************************)
(* C18: the text of a node (SpecWide)                                      *)
(***************************************************************************)
\* C18: for every node of an analyzed unit node_text on the source as str
\* gives the text at the node's bytes of the encoded source, and so the
\* name of every procedure record is the text at the bytes of its name node.
C18_TextAtBytes ==
    Returned =>
        \A f \in 1..Len(index) :
            /\ \A n \in 1..Len(parsed_files[f].nodes) :
                  node_text(parsed_files[f], n)
                      = node_text_bytes(parsed_files[f], n)
            /\ \A p \in 1..Len(index[f].procedures) :
                  \E n \in 1..Len(parsed_files[f].nodes) :
                      /\ parsed_files[f].nodes[n].type = "identifier"
                      /\ index[f].procedures[p].name
                            = node_text_bytes(parsed_files[f], n)

(***************************************************************************)
(* C21: the frame of the classification pass (Spec)                        *)
(***************************************************************************)
\* the file records without the two call lists of their procedures
WithoutCalls(files) ==
    [f \in 1..Len(files) |->
        [files[f] EXCEPT !.procedures =
            [p \in 1..Len(files[f].procedures) |->
                [files[f].procedures[p] EXCEPT !.calls_internal = <<>>,
                                               !.calls_external = <<>>]]]]

\* C21: from its entry on, the classification pass leaves the index as it
\* was at the entry except for the two call lists of the procedures, and no
\* step of build_index changes the input units.
C21_ClassificationFrame ==
    /\ [](pc \in {"collect", "classify", "done"}
            => WithoutCalls(index) = WithoutCalls(pass1))
    /\ [][pc /= "idle" => parsed_files' = parsed_files]_vars

\* the pass has moved calls, in a record that has a prototype as well
C21_Witness ==
    /\ Returned
    /\ \E f \in 1..Len(index) :
          /\ index[f] /= pass1[f]
          /\ index[f].prototypes /= <<>>
          /\ \E p \in 1..Len(index[f].procedures) :
                index[f].procedures[p].calls_external /= <<>>

(***************************************************************************)
(* C29: the names of fixed-form records (SpecFixed)                        *)
(***************************************************************************)
\* the fixed-form records of all five kinds of the index
FixedRecords ==
    UNION {Elems(index[f].fixed_h_specs) \cup Elems(index[f].fixed_f_specs)
             \cup Elems(index[f].fixed_d_specs)
             \cup Elems(index[f].fixed_c_specs)
             \cup Elems(index[f].fixed_p_specs) : f \in 1..Len(index)}

\* C29: the name of a fixed-form record of a returned index is absent or a
\* non-empty string.
C29_NameAbsentOrNonEmpty ==
    Returned => \A r \in FixedRecords : r.name = None \/ r.name[1] /= ""

(***************************************************************************)
(* C30: the order of the input units (SpecRuns)                            *)
(***************************************************************************)
\* xs rearranged: the k-th element is xs[order[k]]
Permuted(xs, order) == [k \in 1..Len(xs) |-> xs[order[k]]]

\* C30: when an earlier call analyzed the units of the last call in another
\* order, its document is the document of the last index with the file
\* records rearranged in the same way, the records themselves unchanged.
C30_OrderIndependent ==
    Returned =>
        \A h \in 1..Len(history) :
        \A order \in Permutations(1..Len(parsed_files)) :
            history[h].input = Permuted(parsed_files, order) =>
                history[h].document = to_json(Permuted(index, order))

\* two units analyzed in one order and then in the other, with calls of the
\* one resolved by names of the other
C30_Witness ==
    /\ Returned
    /\ Len(history) = 2
    /\ Len(parsed_files) = 2
    /\ parsed_files[1] /= parsed_files[2]
    /\ history[1].input = <<parsed_files[2], parsed_files[1]>>
    /\ history[1].document /= history[2].document
    /\ \E c \in Elems(index[2].procedures[1].calls_internal) :
          \E q \in 1..Len(index[1].procedures) :
              SameNameIgnoringCase(c, index[1].procedures[q].name)

(***************************************************************************)
(* C25: a record depends on its unit alone (SpecLines)                     *)
(***************************************************************************)
\* C25: the record of a unit is, before the classification pass and apart
\* from the two call lists after it, the extraction of that unit by itself,
\* whatever other units are analyzed with it; a procedure's uses_files holds
\* only spellings of files declared in its own unit.
C25_UnitAlone ==
    Returned =>
        \A f \in 1..Len(index) :
            /\ pass1[f] = _analyze_file(parsed_files[f])
            /\ WithoutCalls(<<index[f]>>)
                  = WithoutCalls(<<_analyze_file(parsed_files[f])>>)
            /\ \A p \in 1..Len(index[f].procedures) :
               \A t \in Elems(index[f].procedures[p].uses_files) :
                  \E d \in Elems(FileDefs(parsed_files[f])) :
                      SameNameIgnoringCase(t, d.name)

\* the second unit declares the file both units' procedures read; only the
\* second unit's procedure has it in uses_files
C25_Witness ==
    /\ Returned
    /\ Len(index) = 2
    /\ FileDefs(parsed_files[1]) = <<>>
    /\ FileDefs(parsed_files[2]) /= <<>>
    /\ "custfile" \in IdentifierTexts(parsed_files[1],
                                        ProcedureNodes(parsed_files[1])[1])
    /\ index[1].procedures[1].uses_files = <<>>
    /\ index[2].procedures[1].uses_files /= <<>>

(***************************************************************************)
(* C28: the classification pass applied twice (SpecTwice)                  *)
(***************************************************************************)
\* C28: after a second application of the pass the two call lists of every
\* procedure are what they were before it.
C28_Idempotent ==
    (Returned /\ runs = 2) =>
        \A s \in ProcSlots(index) :
            /\ Internal(s) = pass1[s[1]].procedures[s[2]].calls_internal
            /\ External(s) = pass1[s[1]].procedures[s[2]].calls_external

(***************************************************************************)
(* The command line (cli.py, main): the paths are parsed one by one, then  *)
(* build_index is called on the units that were parsed                     *)
(***************************************************************************)
MaxPaths == 2

\* what the paths of a command line lead to: a unit, or an exception raised
\* by parse_to_parsed_file (content = <<>>) with its message.  DeclUnit is a
\* unit of declarations: four F lines (named, comment, blank name, named)
\* ahead of the free-form file declarations, constants, data structures,
\* prototypes and procedures with and without a resolvable name.  BrokenUnit
\* is a unit the parser could not parse in full: an ERROR node, names of
\* zero width where the parser inserted a missing identifier, and a
\* procedure that parsed.
Disk ==
    LET
        DeclUnit ==
            ParsedFile("src/decl.rpgle",
                Tree("source_file",
                  <<Leaf("fixed_f_spec", "     FCUSTFILE  IF   E           K DISK"),
                    Leaf("fixed_f_spec", "     F* prices by customer and item"),
                    Leaf("fixed_f_spec", "     F          IF   E             DISK"),
                    Leaf("fixed_f_spec", "     FPRICES    UF A E           K DISK"),
                    FileDefinitionTerm("Orders"),
                    Tree("file_definition",
                         <<Leaf("dcl-f", "dcl-f"), Leaf(";", ";")>>),
                    FileDefinitionTerm("Items"),
                    Tree("constant_definition",
                         <<Leaf("dcl-c", "dcl-c"), Leaf("identifier", "first"),
                           Field("name", Leaf("identifier", "LIMIT")),
                           Field("value", Leaf("number", "10"))>>),
                    Tree("constant_definition",
                         <<Leaf("dcl-c", "dcl-c"),
                           Field("value", Leaf("number", "42"))>>),
                    Tree("data_structure_definition",
                         <<Leaf("dcl-ds", "dcl-ds"),
                           Tree("identifier_or_star",
                                <<Leaf("identifier", "Order")>>),
                           Tree("subfield_definition",
                                <<Leaf("identifier", "id"),
                                  Leaf("type_spec", "int(10)")>>),
                           Tree("subfield_definition",
                                <<Tree("identifier_or_star", <<Leaf("*", "*")>>),
                                  Leaf("identifier", "late")>>),
                           Tree("subfield_definition",
                                <<Leaf("special_identifier", "*n"),
                                  Leaf("identifier", "pad")>>),
                           Leaf("end-ds", "end-ds")>>),
                    Tree("data_structure_definition",
                         <<Leaf("dcl-ds", "dcl-ds"),
                           Tree("subfield_definition",
                                <<Leaf("identifier", "orphan")>>),
                           Leaf("end-ds", "end-ds")>>),
                    PrototypeTerm("Check"),
                    Tree("procedure_prototype",
                         <<Leaf("dcl-pr", "dcl-pr"), Leaf("end-pr", "end-pr")>>),
                    ProcedureTerm("Total",
                        <<Tree("procedure_interface",
                               <<Leaf("dcl-pi", "dcl-pi"), Leaf("*", "*n"),
                                 Tree("parameter_definition",
                                      <<Leaf("identifier", "qty"),
                                        Leaf("type_spec", "int(10)")>>),
                                 Tree("parameter_definition",
                                      <<Leaf("type_spec", "char(5)")>>),
                                 Leaf("end-pi", "end-pi")>>)>>
                        \o CallSite("Check")
                        \o <<Leaf("read", "read"), Leaf("identifier", "prices")>>),
                    Tree("procedure_definition",
                         <<Leaf("dcl-proc", "dcl-proc"),
                           Leaf("end-proc", "end-proc")>>)>>))
        BrokenUnit ==
            ParsedFile("src/broken.rpgle",
                Tree("source_file",
                  <<Tree("ERROR",
                         <<Leaf("dcl-proc", "dcl-proc"),
                           Leaf("identifier", "Lost")>>),
                    Tree("data_structure_definition",
                         <<Leaf("dcl-ds", "dcl-ds"), Leaf("identifier", "Row"),
                           Tree("subfield_definition", <<Leaf("identifier", "")>>),
                           Tree("subfield_definition", <<Leaf("identifier", "id")>>),
                           Leaf("end-ds", "end-ds")>>),
                    Tree("procedure_definition",
                         <<Leaf("dcl-proc", "dcl-proc"), Leaf("identifier", ""),
                           Leaf("end-proc", "end-proc")>>),
                    ProcedureTerm("Load", CallSite("Total") \o CallSite("check"))>>))
    IN  {[path |-> "src/decl.rpgle", content |-> <<DeclUnit>>, error |-> ""],
         [path |-> "src/broken.rpgle", content |-> <<BrokenUnit>>,
          error |-> ""],
         [path |-> "src/FOOBAR4.rpgle", content |-> <<RunUnitB>>,
          error |-> ""],
         [path |-> "src/latin1.rpgle", content |-> <<>>,
          error |-> "'utf-8' codec can't decode byte 0xe4"]}

\* lines 81-101: main is entered with its paths; the library check and the
\* construction of the parser pass (built) or the run exits with status 1
Main ==
    /\ cli.stage = "shell"
    /\ pc = "idle"
    /\ \E built \in BOOLEAN,
          paths \in UNION {[1..n -> Disk] : n \in 1..MaxPaths} :
          cli' = [stage |-> IF built THEN "parse" ELSE "exit1",
                  built |-> built, disk |-> paths, k |-> 1,
                  parsed_files |-> <<>>, parse_errors |-> <<>>]
    /\ UNCHANGED <<parsed_files, index, pc, i, j, all_procs, external_procs,
                   pass1, runs, history, walks>>

\* ParsePath without the try around the loop body: the first path whose
\* parsing raises ends the run
ParsePathAbort ==
    /\ cli.stage = "parse"
    /\ cli.k <= Len(cli.disk)
    /\ LET path == cli.disk[cli.k].path
           content == cli.disk[cli.k].content
           has_errors(parsed) ==
               \E n \in 1..Len(parsed.nodes) : parsed.nodes[n].type = "ERROR"
       IN  cli' =
             IF content = <<>>
             THEN [cli EXCEPT
                     !.stage = "exit1",
                     !.k = @ + 1,
                     !.parse_errors =
                         Append(@, <<path, cli.disk[cli.k].error>>)]
             ELSE [cli EXCEPT
                     !.k = @ + 1,
                     !.parsed_files = Append(@, content[1]),
                     !.parse_errors =
                         IF has_errors(content[1])
                         THEN Append(@, <<path, "Parse tree contains errors">>)
                         ELSE @]
    /\ UNCHANGED <<parsed_files, index, pc, i, j, all_procs, external_procs,
                   pass1, runs, history, walks>>

\* ParsePath giving up a unit whose tree holds an error node
ParsePathDropBroken ==
    /\ cli.stage = "parse"
    /\ cli.k <= Len(cli.disk)
    /\ LET path == cli.disk[cli.k].path
           content == cli.disk[cli.k].content
           has_errors(parsed) ==
               \E n \in 1..Len(parsed.nodes) : parsed.nodes[n].type = "ERROR"
       IN  cli' =
             IF content = <<>>
             THEN [cli EXCEPT
                     !.k = @ + 1,
                     !.parse_errors =
                         Append(@, <<path, cli.disk[cli.k].error>>)]
             ELSE IF has_errors(content[1])
             THEN [cli EXCEPT
                     !.k = @ + 1,
                     !.parse_errors =
                         Append(@, <<path, "Parse tree contains errors">>)]
             ELSE [cli EXCEPT
                     !.k = @ + 1,
                     !.parsed_files = Append(@, content[1])]
    /\ UNCHANGED <<parsed_files, index, pc, i, j, all_procs, external_procs,
                   pass1, runs, history, walks>>

\* lines 103-111: one turn of the loop over the paths
ParsePath ==
    /\ cli.stage = "parse"
    /\ cli.k <= Len(cli.disk)
    /\ LET path == cli.disk[cli.k].path
           content == cli.disk[cli.k].content
           has_errors(parsed) ==
               \E n \in 1..Len(parsed.nodes) : parsed.nodes[n].type = "ERROR"
       IN  cli' =
             IF content = <<>>
             THEN [cli EXCEPT
                     !.k = @ + 1,
                     !.parse_errors =
                         Append(@, <<path, cli.disk[cli.k].error>>)]
             ELSE [cli EXCEPT
                     !.k = @ + 1,
                     !.parsed_files = Append(@, content[1]),
                     !.parse_errors =
                         IF has_errors(content[1])
                         THEN Append(@, <<path, "Parse tree contains errors">>)
                         ELSE @]
    /\ UNCHANGED <<parsed_files, index, pc, i, j, all_procs, external_procs,
                   pass1, runs, history, walks>>

\* lines 113-120: after the loop the run exits with status 1 when no unit
\* was parsed, and calls build_index on the parsed units otherwise
Analyze ==
    /\ cli.stage = "parse"
    /\ cli.k > Len(cli.disk)
    /\ IF cli.parsed_files = <<>>
       THEN /\ cli' = [cli EXCEPT !.stage = "exit1"]
            /\ UNCHANGED <<parsed_files, index, pc, i>>
       ELSE /\ cli' = [cli EXCEPT !.stage = "analyze"]
            /\ parsed_files' = cli.parsed_files
            /\ index' = <<>>
            /\ pc' = "analyze"
            /\ i' = 1
    /\ UNCHANGED <<j, all_procs, external_procs, pass1, runs, history, walks>>

NextCli == Main \/ ParsePath \/ Analyze \/ Steps

SpecCli == Init /\ [][NextCli]_vars

(***************************************************************************)
(* C22                                                                     *)
(***************************************************************************)
HasErrorNode(unit) ==
    \E n \in 1..Len(unit.nodes) : unit.nodes[n].type = "ERROR"

\* the positions of the command line whose loop turn is over and whose
\* unit holds an error node
BrokenTurns ==
    {m \in 1..Len(cli.disk) :
        /\ m < cli.k
        /\ cli.disk[m].content /= <<>>
        /\ HasErrorNode(cli.disk[m].content[1])}

\* C22: a unit whose parse tree contains error nodes is not discarded.  Once
\* its loop turn is over it is among the units the command line keeps and
\* it is reported as a parse issue "Parse tree contains errors"; it is among
\* the units handed to build_index; and the index build_index returns has,
\* at the unit's position, the record that per-file extraction produces from
\* the unit's tree (its calls classified afterwards).
C22_BrokenUnitKept ==
    /\ \A m \in BrokenTurns :
          /\ InList(cli.disk[m].content[1], cli.parsed_files)
          /\ InList(<<cli.disk[m].path, "Parse tree contains errors">>,
                    cli.parse_errors)
          /\ cli.stage = "analyze" =>
                InList(cli.disk[m].content[1], parsed_files)
    /\ (cli.stage = "analyze" /\ Returned) =>
          /\ Len(index) = Len(parsed_files)
          /\ \A f \in 1..Len(index) :
                /\ index[f].path = parsed_files[f].path
                /\ WithoutCalls(<<index[f]>>)
                       = WithoutCalls(<<_analyze_file(parsed_files[f])>>)

\* build_index has returned an index in which a unit with an error node has
\* a record with a procedure and a data structure, and the unit is reported
C22_Witness ==
    /\ cli.stage = "analyze"
    /\ Returned
    /\ BrokenTurns /= {}
    /\ \E f \in 1..Len(index) :
          /\ HasErrorNode(parsed_files[f])
          /\ index[f].procedures /= <<>>
          /\ index[f].data_structures /= <<>>
    /\ \E e \in 1..Len(cli.parse_errors) :
          cli.parse_errors[e][2] = "Parse tree contains errors"

(***************************************************************************)
(* C26                                                                     *)
(***************************************************************************)
Raises(m) == cli.disk[m].content = <<>>

\* the units of the paths 1..n that parsed, in the order of the paths
ParsedAmong(n) == Concat([m \in 1..n |-> cli.disk[m].content])

\* C26: the command line isolates the paths of a batch.  After the loop turn
\* of a path whose parsing raises, the path is recorded as a parse issue with
\* the exception's message and no unit is kept for it, and the units kept are
\* those of the other paths so far, in the order of the paths; build_index is
\* called on exactly the units of all paths that parsed, in that order.  The
\* run has exited with status 1 only without having called build_index, and
\* only when the parser library is missing or every path raised; it has
\* called build_index only when some path parsed.
C26_BatchIsolation ==
    /\ \A m \in 1..Len(cli.disk) :
          (m < cli.k /\ Raises(m)) =>
              InList(<<cli.disk[m].path, cli.disk[m].error>>,
                     cli.parse_errors)
    /\ cli.parsed_files = ParsedAmong(cli.k - 1)
    /\ cli.stage = "analyze" =>
          /\ cli.built
          /\ \E m \in 1..Len(cli.disk) : ~Raises(m)
          /\ pc /= "idle"
          /\ parsed_files = ParsedAmong(Len(cli.disk))
    /\ cli.stage = "exit1" =>
          /\ ~cli.built \/ \A m \in 1..Len(cli.disk) : Raises(m)
          /\ pc = "idle"
          /\ runs = 0
    /\ (cli.stage = "parse" /\ cli.k > Len(cli.disk)) =>
          (ENABLED Analyze)

\* build_index has returned the index of the one unit that parsed, and the
\* path ahead of it raised
C26_Witness ==
    /\ cli.stage = "analyze"
    /\ Returned
    /\ Len(cli.disk) = 2
    /\ Raises(1)
    /\ ~Raises(2)
    /\ Len(index) = 1
    /\ index[1].path = cli.disk[2].path
    /\ cli.parse_errors = <<<<cli.disk[1].path, cli.disk[1].error>>>>

(***************************************************************************)
(* C23                                                                     *)
(***************************************************************************)
NameKinds == {"identifier", "special_identifier", "identifier_or_star"}

\* the least position of a set of positions
FirstOf(positions) == CHOOSE k \in positions : \A m \in positions : k <= m

\* the name the priority rule gives node n of a unit, or None
RECURSIVE ResolvedName(_, _)
ResolvedName(unit, n) ==
    LET cs == unit.nodes[n].children
        in_name == {k \in 1..Len(cs) : unit.nodes[cs[k]].field = "name"}
        of_kind == {k \in 1..Len(cs) : unit.nodes[cs[k]].type \in NameKinds}
    IN  IF unit.nodes[n].type \in {"identifier", "special_identifier"}
        THEN Some(node_text(unit, n))
        ELSE IF in_name /= {}
        THEN Some(node_text(unit, cs[FirstOf(in_name)]))
        ELSE IF of_kind = {} THEN None
        ELSE IF unit.nodes[cs[FirstOf(of_kind)]].type = "identifier_or_star"
        THEN ResolvedName(unit, cs[FirstOf(of_kind)])
        ELSE Some(node_text(unit, cs[FirstOf(of_kind)]))

\* C23: identifier resolution follows a fixed priority.  For every node of
\* every unit handed to build_index, _get_identifier_name gives the node's
\* own text when the node is an identifier or a special identifier; otherwise
\* the text of its 'name' field when it has one; otherwise the name resolved
\* from its first child of kind identifier, special_identifier or
\* identifier_or_star (resolved through the identifier_or_star wrapper); and
\* nothing when none of these exists.
C23_ResolutionPriority ==
    \A f \in 1..Len(parsed_files) :
        \A n \in 1..Len(parsed_files[f].nodes) :
            _get_identifier_name(parsed_files[f], n)
                = ResolvedName(parsed_files[f], n)

\* build_index has returned the record of a unit in which a 'name' field
\* follows an identifier child (constant LIMIT), a name sits in a wrapper
\* (data structure Order), a special identifier is the first child (subfield
\* *n), a wrapper holds no name although an identifier follows it, and a
\* declaration has no name at all
C23_Witness ==
    /\ Returned
    /\ \E f \in 1..Len(index) :
          /\ \E c \in 1..Len(index[f].constants) :
                index[f].constants[c].name = "LIMIT"
          /\ \E d \in 1..Len(index[f].data_structures) :
                /\ index[f].data_structures[d].name = "Order"
                /\ index[f].data_structures[d].subfields = <<"id", "*n">>
          /\ \E n \in 1..Len(parsed_files[f].nodes) :
                /\ parsed_files[f].nodes[n].type = "subfield_definition"
                /\ Len(parsed_files[f].nodes[n].children) = 2
                /\ _get_identifier_name(parsed_files[f], n) = None
          /\ \E n \in 1..Len(parsed_files[f].nodes) :
                /\ parsed_files[f].nodes[n].type = "constant_definition"
                /\ _get_identifier_name(parsed_files[f], n) = None

(***************************************************************************)
(* C24                                                                     *)
(***************************************************************************)
\* the names the nodes of one kind resolve to, in source order, the nodes
\* without a name or with an empty one left out
NamesOf(unit, kind) ==
    Concat([n \in 1..Len(unit.nodes) |->
              IF /\ unit.nodes[n].type = kind
                 /\ Truthy(ResolvedName(unit, n))
              THEN ResolvedName(unit, n)
              ELSE <<>>])

\* the nodes of one kind that resolve to no name or to an empty one
Nameless(unit, kind) ==
    {n \in 1..Len(unit.nodes) :
        unit.nodes[n].type = kind /\ ~Truthy(ResolvedName(unit, n))}

NameList(records) == [k \in 1..Len(records) |-> records[k].name]

\* the F records of a file record that carry a non-empty name
NamedFRecords(rpg_file) ==
    Concat([k \in 1..Len(rpg_file.fixed_f_specs) |->
              IF Truthy(rpg_file.fixed_f_specs[k].name)
              THEN <<rpg_file.fixed_f_specs[k]>>
              ELSE <<>>])

\* C24: no name is synthesised.  In every index build_index returns, the
\* procedures, constants, data structures and prototypes of a file record
\* are named, in source order, by the names their declarations resolve to,
\* and a declaration that resolves to no name or to an empty one has no
\* record; the file declarations are named by the free-form declarations'
\* resolved names followed by the non-empty names of the F records; every
\* parameter name and every subfield name is the non-empty name some
\* parameter or subfield declaration of the unit resolves to.
C24_NoSynthesisedName ==
    Returned =>
      \A f \in 1..Len(index) :
        LET unit == parsed_files[f]
            file == index[f]
        IN  /\ NameList(file.procedures)
                  = NamesOf(unit, "procedure_definition")
            /\ NameList(file.constants)
                  = NamesOf(unit, "constant_definition")
            /\ NameList(file.data_structures)
                  = NamesOf(unit, "data_structure_definition")
            /\ file.prototypes = NamesOf(unit, "procedure_prototype")
            /\ NameList(file.file_defs)
                  = NamesOf(unit, "file_definition")
                    \o [k \in 1..Len(NamedFRecords(file)) |->
                          NamedFRecords(file)[k].name[1]]
            /\ \A k \in 1..Len(file.file_defs) : file.file_defs[k].name /= ""
            /\ \A k \in 1..Len(file.procedures) :
                  /\ file.procedures[k].name /= ""
                  /\ \A q \in 1..Len(file.procedures[k].params) :
                        /\ file.procedures[k].params[q].name /= ""
                        /\ InList(file.procedures[k].params[q].name,
                                  NamesOf(unit, "parameter_definition"))
            /\ \A k \in 1..Len(file.constants) : file.constants[k].name /= ""
            /\ \A k \in 1..Len(file.prototypes) : file.prototypes[k] /= ""
            /\ \A k \in 1..Len(file.data_structures) :
                  /\ file.data_structures[k].name /= ""
                  /\ \A q \in 1..Len(file.data_structures[k].subfields) :
                        /\ file.data_structures[k].subfields[q] /= ""
                        /\ InList(file.data_structures[k].subfields[q],
                                  NamesOf(unit, "subfield_definition"))

\* build_index has returned the records of a unit that declares, with and
\* without a name, a file, a constant, a data structure, a prototype, a
\* procedure and a parameter, and has an F record with a blank name, and of
\* a unit whose subfield and procedure carry an identifier of zero width
C24_Witness ==
    /\ Returned
    /\ \E f \in 1..Len(index) :
          /\ \A kind \in {"file_definition", "constant_definition",
                          "data_structure_definition", "procedure_prototype",
                          "procedure_definition", "parameter_definition",
                          "subfield_definition"} :
                /\ Nameless(parsed_files[f], kind) /= {}
                /\ NamesOf(parsed_files[f], kind) /= <<>>
          /\ \E k \in 1..Len(index[f].fixed_f_specs) :
                index[f].fixed_f_specs[k].name = Some("")
          /\ index[f].procedures[1].params /= <<>>
    /\ \E f \in 1..Len(index) :
          /\ \E n \in Nameless(parsed_files[f], "subfield_definition") :
                ResolvedName(parsed_files[f], n) = Some("")
          /\ \E n \in Nameless(parsed_files[f], "procedure_definition") :
                ResolvedName(parsed_files[f], n) = Some("")
          /\ index[f].data_structures /= <<>>

(***************************************************************************)
(* C27                                                                     *)
(***************************************************************************)
\* the name field of an F record: columns 7-16 of its line, stripped
FNameField(record) == Strip(Slice(record.raw_line, 6, 16))

\* the file declarations the F records of a file record stand for: none for
\* a comment or a blank name field
FRecordDeclarations(rpg_file) ==
    Concat([k \in 1..Len(rpg_file.fixed_f_specs) |->
              LET record == rpg_file.fixed_f_specs[k]
              IN  IF FNameField(record) = ""
                     \/ StartsWith(FNameField(record), "*")
                  THEN <<>>
                  ELSE <<[name |-> FNameField(record),
                          keywords |-> record.keywords]>>])

\* the free-form file declarations of a unit, in source order
FreeFormDeclarations(unit) ==
    Concat([n \in 1..Len(unit.nodes) |->
              IF unit.nodes[n].type = "file_definition"
              THEN _extract_file_def(unit, n)
              ELSE <<>>])

\* C27: after per-file extraction, file_defs holds the unit's free-form file
\* declarations in source order, followed by one entry per F record that has
\* a non-empty name, in source order, each with the F record's name and
\* keywords; an F record that is a comment or has a blank name field adds no
\* entry.
C27_FileDefsOrder ==
    pc \in {"collect", "classify", "done"} =>
      \A f \in 1..Len(index) :
          index[f].file_defs
              = FreeFormDeclarations(parsed_files[f])
                \o FRecordDeclarations(index[f])

\* a unit with two free-form declarations behind its F records has been
\* analysed: its file_defs are the two declarations and then the two named F
\* records, and it has a comment F record and one with a blank name field
C27_Witness ==
    /\ Returned
    /\ \E f \in 1..Len(index) :
          /\ NameList(index[f].file_defs)
                = <<"Orders", "Items", "CUSTFILE", "PRICES">>
          /\ Len(index[f].fixed_f_specs) = 4
          /\ index[f].fixed_f_specs[2].name = None
          /\ index[f].fixed_f_specs[3].name = Some("")
          /\ parsed_files[f].nodes[2].type = "fixed_f_spec"

====
